---- MODULE Spec2Model ----
(***************************************************************************)
(* Model of the buscaluso benchmark harness (src/src/lib.rs): the ordering *)
(* of BenchResult, the match state machine BenchRunner, and the trial      *)
(* orchestrator Bencher::run_benches / run_benches_for_word.               *)
(*                                                                         *)
(* Durations are natural numbers of clock ticks.                           *)
(***************************************************************************)
EXTENDS Integers, Sequences, FiniteSets, TLC

\* ------------------------------------------------------------------------
\* Bounds of the model
\* ------------------------------------------------------------------------

\* largest found_index drawn for the inputs of cmp
MaxIndex == 1

\* largest elapsed time drawn for the inputs of cmp
MaxCmpElapsed == 2

\* ------------------------------------------------------------------------
\* BenchResult and its ordering
\* ------------------------------------------------------------------------

\* error messages, listed in the order String::cmp gives them
ErrMsgs == <<"e1", "e2">>

\* found_index: Result<Option<usize>, String>
\*   Ok(Some(i)) ~ [tag |-> "OkSome", idx |-> i, msg |-> ""]
\*   Ok(None)    ~ [tag |-> "OkNone", idx |-> 0, msg |-> ""]
\*   Err(m)      ~ [tag |-> "Err",    idx |-> 0, msg |-> m]
OkSome(i) == [tag |-> "OkSome", idx |-> i, msg |-> ""]

OkNone == [tag |-> "OkNone", idx |-> 0, msg |-> ""]

Err(m) == [tag |-> "Err", idx |-> 0, msg |-> m]

BenchResult(fi, e) == [found_index |-> fi, elapsed |-> e]

\* faulty variant of success: the rank recorded one-based
successOneBased(found_index, elapsed) == BenchResult(OkSome(found_index + 1), elapsed)

success(found_index, elapsed) == BenchResult(OkSome(found_index), elapsed)

is_found(r) == r.found_index.tag = "OkSome"

IsNotFound(r) == r.found_index.tag = "OkNone"

IsErrored(r) == r.found_index.tag = "Err"

IsOk(fi) == fi.tag \in {"OkSome", "OkNone"}

\* Ord of usize and of Duration
NatCmp(x, y) == IF x < y THEN "Less" ELSE IF x > y THEN "Greater" ELSE "Equal"

\* Ord of String, on the messages of ErrMsgs
StrPos(s) == CHOOSE i \in 1..Len(ErrMsgs) : ErrMsgs[i] = s

StrCmp(s, t) == NatCmp(StrPos(s), StrPos(t))

\* derived Ord of Result<Option<usize>, String>: Ok < Err, None < Some
FoundIndexCmp(f, g) ==
    IF IsOk(f) /\ g.tag = "Err" THEN "Less"
    ELSE IF f.tag = "Err" /\ IsOk(g) THEN "Greater"
    ELSE IF f.tag = "Err" THEN StrCmp(f.msg, g.msg)
    ELSE IF f.tag = "OkNone" /\ g.tag = "OkSome" THEN "Less"
    ELSE IF f.tag = "OkSome" /\ g.tag = "OkNone" THEN "Greater"
    ELSE IF f.tag = "OkNone" THEN "Equal"
    ELSE NatCmp(f.idx, g.idx)

\* faulty variant of TupleCmp: the pair compared as (elapsed, &found_index)
TupleCmpElapsedFirst(self, other) ==
    LET first == NatCmp(self.elapsed, other.elapsed)
    IN  IF first # "Equal" THEN first
        ELSE FoundIndexCmp(self.found_index, other.found_index)

\* faulty variant of TupleCmp: elapsed left out of the comparison
TupleCmpNoElapsed(self, other) ==
    FoundIndexCmp(self.found_index, other.found_index)

\* Ord of the pair (&found_index, elapsed): lexicographic
TupleCmp(self, other) ==
    LET first == FoundIndexCmp(self.found_index, other.found_index)
    IN  IF first # "Equal" THEN first ELSE NatCmp(self.elapsed, other.elapsed)

\* impl Ord for BenchResult
cmp(self, other) ==
    IF \/ IsOk(self.found_index) /\ other.found_index.tag = "Err"
       \/ self.found_index.tag = "OkNone" /\ other.found_index.tag = "OkSome"
    THEN "Greater"
    ELSE IF \/ self.found_index.tag = "Err" /\ IsOk(other.found_index)
            \/ self.found_index.tag = "OkSome" /\ other.found_index.tag = "OkNone"
    THEN "Less"
    ELSE TupleCmp(self, other)

\* the results cmp is applied to
CmpInputs ==
    {success(i, e) : i \in 0..MaxIndex, e \in 0..MaxCmpElapsed}
    \cup {BenchResult(OkNone, e) : e \in 0..MaxCmpElapsed}
    \cup {BenchResult(Err(ErrMsgs[k]), e) : k \in 1..Len(ErrMsgs), e \in 0..MaxCmpElapsed}

\* ------------------------------------------------------------------------
\* Bencher: the registered benches and the result ledger
\* ------------------------------------------------------------------------

\* longest candidate stream: the most iter.next() calls that return Some(_)
MaxSteps == 3

\* largest elapsed time a trial's clock reaches
MaxElapsed == 1

\* largest repeat of a run configuration
MaxRepeat == 2

\* largest repeat_failed of a run configuration
MaxRepeatFailed == 1

\* the words the search engine emits
Words == {"a", "b"}

\* the target-groups that get registered, in the order of BTreeSet<String>
GroupOrder == << {"a"}, {"a", "b"} >>

\* the benches that get registered: one start word with two target-groups
OneWord == [w \in {"x"} |-> {{"a"}, {"a", "b"}}]

\* the benches that get registered: two start words
TwoWords == [w \in {"x", "y"} |-> IF w = "x" THEN {{"a"}, {"a", "b"}} ELSE {{"a"}}]

Range(s) == {s[i] : i \in 1..Len(s)}

\* the orders start_words.shuffle can produce
Perms(S) == {s \in [1..Cardinality(S) -> S] : Range(s) = S}

\* Bencher::new followed by add_bench of every bench of the registry reg
NewLedger(reg) == [w \in DOMAIN reg |-> [g \in reg[w] |-> << >>]]

\* the keys of one start word's BTreeMap, in key order, from the k-th of GroupOrder
RECURSIVE KeysFrom(_, _)
KeysFrom(results, k) ==
    IF k > Len(GroupOrder) THEN << >>
    ELSE IF GroupOrder[k] \in DOMAIN results
    THEN << GroupOrder[k] >> \o KeysFrom(results, k + 1)
    ELSE KeysFrom(results, k + 1)

\* benches.iter(): the target-groups of one start word in BTreeMap key order
Targets(results) == KeysFrom(results, 1)

\* faulty variant of RemoveFound: the index advances after a removal too
RECURSIVE RemoveFoundSkip(_, _)
RemoveFoundSkip(bench_vec, i) ==
    IF i > Len(bench_vec) THEN bench_vec
    ELSE IF is_found(bench_vec[i])
    THEN RemoveFoundSkip(SubSeq(bench_vec, 1, i - 1)
                         \o SubSeq(bench_vec, i + 1, Len(bench_vec)), i + 1)
    ELSE RemoveFoundSkip(bench_vec, i + 1)

\* faulty variant of RemoveFound: the warm-up failures are dropped as well
RemoveFoundAll(bench_vec, i) == << >>

\* the inner loop of clear_successes over one bench_vec, from index i (1-based)
RECURSIVE RemoveFound(_, _)
RemoveFound(bench_vec, i) ==
    IF i > Len(bench_vec) THEN bench_vec
    ELSE IF is_found(bench_vec[i])
    THEN RemoveFound(SubSeq(bench_vec, 1, i - 1) \o SubSeq(bench_vec, i + 1, Len(bench_vec)), i)
    ELSE RemoveFound(bench_vec, i + 1)

\* Bencher::clear_successes
clear_successes(bs) ==
    [w \in DOMAIN bs |-> [g \in DOMAIN bs[w] |-> RemoveFound(bs[w][g], 1)]]

\* faulty variant of ShouldRun: a Found outcome no longer keeps a group scheduled
ShouldRunNoFound(results, rf) == Len(results) < rf

\* faulty variant of ShouldRun: the threshold off by one
ShouldRunOffByOne(results, rf) ==
    \/ Len(results) + 1 < rf
    \/ \E i \in 1..Len(results) : is_found(results[i])

\* faulty variant of ShouldRun: an Errored outcome keeps a group scheduled
ShouldRunRetryErrored(results, rf) ==
    \/ Len(results) < rf
    \/ \E i \in 1..Len(results) : is_found(results[i]) \/ IsErrored(results[i])

\* faulty variant of ShouldRun: a Found outcome keeps a group scheduled only
\* when it is the first outcome of the history
ShouldRunFirstFound(results, rf) ==
    \/ Len(results) < rf
    \/ (results # << >> /\ is_found(results[1]))

\* the skip heuristic of run_benches_for_word
ShouldRun(results, rf) ==
    \/ Len(results) < rf
    \/ \E i \in 1..Len(results) : is_found(results[i])

\* ------------------------------------------------------------------------
\* BenchRunner
\* ------------------------------------------------------------------------

\* BenchRunner::new
NewRunner == [remaining_targets |-> << >>, all_target_words |-> {}]

\* BenchRunner::add_targets
add_targets(rn, targets) ==
    [remaining_targets |-> Append(rn.remaining_targets, targets),
     all_target_words |-> rn.all_target_words \cup targets]

\* BenchRunner::is_done
is_done(rn) == rn.remaining_targets = << >>

\* faulty variant of SwapRemove: the last element is dropped, not moved into place
SwapRemovePop(v, i) == SubSeq(v, 1, Len(v) - 1)

\* Vec::swap_remove at index i (1-based)
SwapRemove(v, i) ==
    IF i = Len(v) THEN SubSeq(v, 1, Len(v) - 1)
    ELSE [SubSeq(v, 1, Len(v) - 1) EXCEPT ![i] = v[Len(v)]]

\* faulty variant of HitLoop: the loop ends at the first target hit
RECURSIVE HitLoopFirstOnly(_, _, _, _)
HitLoopFirstOnly(remaining, target_idx, word, hits) ==
    IF target_idx > Len(remaining) THEN [remaining |-> remaining, hits |-> hits]
    ELSE IF word \in remaining[target_idx]
    THEN [remaining |-> SwapRemove(remaining, target_idx),
          hits |-> Append(hits, remaining[target_idx])]
    ELSE HitLoopFirstOnly(remaining, target_idx + 1, word, hits)

\* the while loop of on_word_found from target_idx (1-based); hits collects the
\* targets passed to on_target_hit, in call order
RECURSIVE HitLoop(_, _, _, _)
HitLoop(remaining, target_idx, word, hits) ==
    IF target_idx > Len(remaining) THEN [remaining |-> remaining, hits |-> hits]
    ELSE IF word \in remaining[target_idx]
    THEN HitLoop(SwapRemove(remaining, target_idx), target_idx, word,
                 Append(hits, remaining[target_idx]))
    ELSE HitLoop(remaining, target_idx + 1, word, hits)

\* BenchRunner::on_word_found
on_word_found(rn, word) ==
    IF word \in rn.all_target_words
    THEN HitLoop(rn.remaining_targets, 1, word, << >>)
    ELSE [remaining |-> rn.remaining_targets, hits |-> << >>]

\* the scheduling loop of run_benches_for_word over benches.iter(), from the
\* k-th target-group
RECURSIVE Schedule(_, _, _, _, _)
Schedule(rn, targets, results, rf, k) ==
    IF k > Len(targets) THEN rn
    ELSE Schedule(IF ShouldRun(results[targets[k]], rf)
                  THEN add_targets(rn, targets[k]) ELSE rn,
                  targets, results, rf, k + 1)

\* faulty variant of MorePasses: the range taken as 0..=repeat
MorePassesInclusive(done, rep) == done <= rep

\* faulty variant of MorePasses: the range taken as 1..repeat
MorePassesSkipFirst(done, rep) == done + 1 < rep

\* `for _ in 0..run_cfg.repeat`: another timed pass follows after `done` of them
MorePasses(done, rep) == done < rep

\* faulty variant of TimedOut: the timeout itself is not yet too late
TimedOutStrict(elapsed, limit) == elapsed > limit

\* the loop test after a stream step: the timeout check, then !runner.is_done()
TimedOut(elapsed, limit) == elapsed >= limit

VARIABLES lhs, rhs, ordering

cmpVars == <<lhs, rhs, ordering>>

VARIABLES repeat, repeat_failed, timeout

cfgVars == <<repeat, repeat_failed, timeout>>

\* benches: the ledger; phase, passes, start_words, word_pos: the position of
\* run_benches (which pass, which word of the shuffled order)
VARIABLES benches, phase, passes, start_words, word_pos

\* the locals of run_benches_for_word: pc its position, steps the position of
\* the candidate stream, now the value of start_time.elapsed()
VARIABLES pc, runner, word_idx, steps, now

\* history of the current visit and pass: cur the start word, scheduled the
\* groups handed to the runner, before the ledger of cur when the visit began,
\* emitted the words the stream yielded, outcome how the visit ended,
\* warmups / visited / searched the passes, visits and engine calls counted,
\* precleared the ledger that clear_successes was last applied to,
\* found_in the (start word, target-group, phase) triples for which the
\* current run has pushed a Found outcome
VARIABLES cur, scheduled, before, emitted, outcome, warmups, visited, searched,
          precleared, found_in

runVars == <<benches, phase, passes, start_words, word_pos>>

wordVars == <<pc, runner, word_idx, steps, now>>

visitVars == <<cur, scheduled, before, emitted, outcome>>

histVars == <<visitVars, warmups, visited, searched, precleared, found_in>>

\* the arguments and results of BenchResultCompiler::score: compiler the
\* BenchResultCompiler, result the outcome scored, orig_score its score and
\* new_score the score of the same outcome one rank lower down
VARIABLES compiler, result, scored, orig_score, new_score

scoreVars == <<compiler, result, scored, orig_score, new_score>>

\* history the outcomes passed to BenchResultCompiler::compile, compiled what
\* it returns
VARIABLES history, compiled

compileVars == <<history, compiled>>

\* contenders the CompiledBenchResults that is_better_than and difference are
\* applied to, verdict what they return for every pair
VARIABLES contenders, verdict

judgeVars == <<contenders, verdict>>

\* call the last call of add_bench or load_benches with what it returned,
\* prior the ledger (Bencher::benches) when it was made
VARIABLES call, prior

regVars == <<call, prior>>

\* db the two tables of the database, clock the wall-clock second, minted the
\* session ids new_session_id has returned, dbcall the last call on the BenchDb
\* with what it returned, dbprior the tables when it was made, appended the
\* (session, bench, outcome) triples passed to add_result so far
VARIABLES db, clock, minted, dbcall, dbprior, appended

dbVars == <<db, clock, minted, dbcall, dbprior, appended>>

\* harness the runs of the bench harness (main) on the database: for each its
\* position, its session id, the ledger run_benches left and the number of
\* its entries written so far
VARIABLES harness

mainVars == <<harness>>

fnVars == <<scoreVars, compileVars, judgeVars, regVars, dbVars, mainVars>>

vars == <<cmpVars, cfgVars, runVars, wordVars, histVars, fnVars>>

\* Option::None, and Option::Some(x) as << x >>
None == << >>

\* compile has not been called
NotCompiled ==
    [status |-> "none", score |-> None, errors |-> << >>,
     found_index |-> None, elapsed |-> None,
     sorted |-> << >>, drop_num |-> 0, keep_num |-> 0, total |-> 0]

\* no pair of compiled results has been compared
NoVerdict == [done |-> FALSE, better |-> << >>, difference |-> << >>]

NoJudge ==
    /\ contenders = << >>
    /\ verdict = NoVerdict

\* no call of add_bench or load_benches yet
NoCall ==
    [op |-> "none", count |-> 0, start_word |-> << >>, targets |-> << >>,
     input |-> << >>, ok |-> TRUE, line_no |-> 0]

NoReg ==
    /\ call = NoCall
    /\ prior = << >>

\* the tables BenchDb::new creates: bench_session_info and bench_run
EmptyDb == [bench_session_info |-> << >>, bench_run |-> << >>]

\* no call on the BenchDb yet
NoDbCall ==
    [op |-> "none", count |-> 0, session_id |-> 0, name |-> "", value |-> "",
     bench |-> "", outcome |-> BenchResult(OkNone, 0), ret |-> 0]

NoDb ==
    /\ db = EmptyDb
    /\ clock = 0
    /\ minted = {}
    /\ dbcall = NoDbCall
    /\ dbprior = EmptyDb
    /\ appended = << >>

\* none of the other operations is called
\* the processes that run the bench harness
Harnesses == {1, 2}

\* main before its first statement
NotStarted ==
    [pc |-> "start", session_id |-> 0, infos |-> 0, results |-> << >>, written |-> 0]

NoMain == harness = [h \in Harnesses |-> NotStarted]

NoOther == NoJudge /\ NoReg /\ NoDb /\ NoMain

\* neither score nor compile is called
NoFn ==
    /\ compiler = [index_equivalent |-> 0, drop_fraction |-> << 0, 1 >>]
    /\ result = success(0, 0)
    /\ scored = FALSE /\ orig_score = 0 /\ new_score = 0
    /\ history = << >>
    /\ compiled = NotCompiled
    /\ NoOther

NoCmp ==
    /\ lhs = success(0, 0)
    /\ rhs = success(0, 0)
    /\ ordering = "unset"

NoRun ==
    /\ repeat = 0 /\ repeat_failed = 0 /\ timeout = 0
    /\ benches = NewLedger(OneWord)
    /\ phase = "ready" /\ passes = 0 /\ start_words = << >> /\ word_pos = 0
    /\ pc = "idle" /\ runner = NewRunner /\ word_idx = 0 /\ steps = 0 /\ now = 0
    /\ cur = "" /\ scheduled = {} /\ before = << >> /\ emitted = << >>
    /\ outcome = "none" /\ warmups = 0
    /\ visited = [w \in DOMAIN OneWord |-> 0]
    /\ searched = [w \in DOMAIN OneWord |-> 0]
    /\ precleared = << >>
    /\ found_in = {}

InitCmp ==
    /\ lhs \in CmpInputs
    /\ rhs \in CmpInputs
    /\ ordering = "unset"
    /\ NoRun
    /\ NoFn

\* lhs.cmp(&rhs)
Compare ==
    /\ ordering = "unset"
    /\ ordering' = cmp(lhs, rhs)
    /\ UNCHANGED <<lhs, rhs, fnVars, cfgVars, runVars, wordVars, histVars>>

NextCmp == Compare

SpecCmp == InitCmp /\ [][NextCmp]_vars

\* ------------------------------------------------------------------------
\* Bencher::run_benches and run_benches_for_word
\* ------------------------------------------------------------------------

\* faulty variant of ErrTargets: only the scheduled groups get the error
ErrTargetsScheduled(results, rn) == Range(rn.remaining_targets)

\* the histories the Err arm of run_benches_for_word pushes onto:
\* benches.values_mut()
ErrTargets(results, rn) == DOMAIN results

\* result pushed onto the history of every group of `groups`
PushAll(results, groups, r) ==
    [g \in DOMAIN results |->
        IF g \in groups THEN Append(results[g], r) ELSE results[g]]

ZeroCount == [w \in DOMAIN benches |-> 0]

\* a Bencher with the benches of reg registered, and a run configuration
InitRun(reg) ==
    /\ NoCmp
    /\ NoFn
    /\ repeat \in 0..MaxRepeat
    /\ repeat_failed \in 0..MaxRepeatFailed
    /\ timeout \in 0..(MaxElapsed + 1)
    /\ benches = NewLedger(reg)
    /\ phase = "ready" /\ passes = 0 /\ start_words = << >> /\ word_pos = 0
    /\ pc = "idle" /\ runner = NewRunner /\ word_idx = 0 /\ steps = 0 /\ now = 0
    /\ cur = "" /\ scheduled = {} /\ before = << >> /\ emitted = << >>
    /\ outcome = "none" /\ warmups = 0
    /\ visited = ZeroCount /\ searched = ZeroCount
    /\ precleared = << >>
    /\ found_in = {}

Init == InitRun(OneWord)

InitTwo == InitRun(TwoWords)

\* run_benches up to the first shuffle: the warm-up pass begins
BeginRun ==
    /\ phase = "ready"
    /\ phase' = "warmup"
    /\ start_words' \in Perms(DOMAIN benches)
    /\ word_pos' = 0
    /\ warmups' = warmups + 1
    /\ visited' = ZeroCount /\ searched' = ZeroCount
    /\ found_in' = {}
    /\ UNCHANGED <<cmpVars, fnVars, cfgVars, benches, passes, wordVars, visitVars, precleared>>

\* the next word of the current pass is due
WordDue ==
    /\ phase \in {"warmup", "timed"}
    /\ pc = "idle"
    /\ word_pos < Len(start_words)

NextWord == start_words[word_pos + 1]

NextRunner ==
    Schedule(NewRunner, Targets(benches[NextWord]), benches[NextWord], repeat_failed, 1)

\* what every entry into run_benches_for_word records
EnterVisit ==
    /\ cur' = NextWord
    /\ scheduled' = Range(NextRunner.remaining_targets)
    /\ before' = benches[NextWord]
    /\ emitted' = << >>
    /\ visited' = [visited EXCEPT ![NextWord] = @ + 1]
    /\ precleared' = << >>
    /\ UNCHANGED <<warmups, found_in>>

\* faulty variant of VisitSkip: the skipped groups are recorded as NotFound
VisitSkipRecording ==
    /\ WordDue
    /\ is_done(NextRunner)
    /\ EnterVisit
    /\ outcome' = "skipped"
    /\ word_pos' = word_pos + 1
    /\ benches' = [benches EXCEPT ![NextWord] =
                     PushAll(@, DOMAIN @, BenchResult(OkNone, 0))]
    /\ UNCHANGED <<cmpVars, fnVars, cfgVars, phase, passes, start_words,
                   wordVars, searched>>

\* run_benches_for_word: no group is scheduled, the word is skipped
VisitSkip ==
    /\ WordDue
    /\ is_done(NextRunner)
    /\ EnterVisit
    /\ outcome' = "skipped"
    /\ word_pos' = word_pos + 1
    /\ UNCHANGED <<cmpVars, fnVars, cfgVars, benches, phase, passes, start_words,
                   wordVars, searched>>

\* faulty variant of VisitSearchErr: the failure ends the run
VisitSearchErrAbort ==
    /\ WordDue
    /\ ~is_done(NextRunner)
    /\ EnterVisit
    /\ searched' = [searched EXCEPT ![NextWord] = @ + 1]
    /\ \E elapsed \in 0..1 :
         /\ elapsed <= MaxElapsed
         /\ benches' = [benches EXCEPT ![NextWord] =
                          PushAll(@, ErrTargets(@, NextRunner),
                                  BenchResult(Err(ErrMsgs[1]), elapsed))]
    /\ outcome' = "error"
    /\ word_pos' = word_pos + 1
    /\ phase' = "done"
    /\ UNCHANGED <<cmpVars, fnVars, cfgVars, passes, start_words, wordVars>>

\* faulty variant of VisitSearchErr: the error is pushed onto the histories of
\* every start word
VisitSearchErrEveryWord ==
    /\ WordDue
    /\ ~is_done(NextRunner)
    /\ EnterVisit
    /\ searched' = [searched EXCEPT ![NextWord] = @ + 1]
    /\ \E elapsed \in 0..1 :
         /\ elapsed <= MaxElapsed
         /\ benches' = [w \in DOMAIN benches |->
                          PushAll(benches[w], DOMAIN benches[w],
                                  BenchResult(Err(ErrMsgs[1]), elapsed))]
    /\ outcome' = "error"
    /\ word_pos' = word_pos + 1
    /\ UNCHANGED <<cmpVars, fnVars, cfgVars, phase, passes, start_words, wordVars>>

\* run_benches_for_word: cfg.search fails
VisitSearchErr ==
    /\ WordDue
    /\ ~is_done(NextRunner)
    /\ EnterVisit
    /\ searched' = [searched EXCEPT ![NextWord] = @ + 1]
    /\ \E elapsed \in 0..1 :
         /\ elapsed <= MaxElapsed
         /\ benches' = [benches EXCEPT ![NextWord] =
                          PushAll(@, ErrTargets(@, NextRunner),
                                  BenchResult(Err(ErrMsgs[1]), elapsed))]
    /\ outcome' = "error"
    /\ word_pos' = word_pos + 1
    /\ UNCHANGED <<cmpVars, fnVars, cfgVars, phase, passes, start_words, wordVars>>

\* faulty variant of VisitSearchOk: the timeout is tested before the first
\* stream step
VisitSearchOkChecked ==
    /\ WordDue
    /\ ~is_done(NextRunner)
    /\ EnterVisit
    /\ searched' = [searched EXCEPT ![NextWord] = @ + 1]
    /\ runner' = NextRunner
    /\ word_idx' = 0 /\ steps' = 0 /\ now' = 0
    /\ pc' = IF TimedOut(0, timeout) THEN "after" ELSE "loop"
    /\ outcome' = "running"
    /\ UNCHANGED <<cmpVars, fnVars, cfgVars, runVars>>

\* run_benches_for_word: cfg.search succeeds, the stream loop begins
VisitSearchOk ==
    /\ WordDue
    /\ ~is_done(NextRunner)
    /\ EnterVisit
    /\ searched' = [searched EXCEPT ![NextWord] = @ + 1]
    /\ runner' = NextRunner
    /\ word_idx' = 0 /\ steps' = 0 /\ now' = 0
    /\ pc' = "loop"
    /\ outcome' = "running"
    /\ UNCHANGED <<cmpVars, fnVars, cfgVars, runVars>>

\* one iteration of the stream loop: iter.next() yields Some(Some((word, _)))
StepWord ==
    /\ pc = "loop"
    /\ steps < MaxSteps
    /\ \E word \in Words, d \in 0..1 :
         LET elapsed == now + d
             hit == on_word_found(runner, word)
         IN  /\ elapsed <= MaxElapsed
             /\ benches' = [benches EXCEPT ![cur] =
                              PushAll(@, Range(hit.hits), success(word_idx, elapsed))]
             /\ runner' = [runner EXCEPT !.remaining_targets = hit.remaining]
             /\ now' = elapsed
             /\ emitted' = Append(emitted, word)
             /\ found_in' = found_in \cup {<< cur, g, phase >> : g \in Range(hit.hits)}
             /\ pc' = IF TimedOut(elapsed, timeout) \/ is_done(runner')
                      THEN "after" ELSE "loop"
    /\ word_idx' = word_idx + 1
    /\ steps' = steps + 1
    /\ UNCHANGED <<cmpVars, fnVars, cfgVars, phase, passes, start_words, word_pos,
                   cur, scheduled, before, outcome, warmups, visited, searched,
                   precleared>>

\* one iteration of the stream loop: iter.next() yields Some(None)
StepNoWord ==
    /\ pc = "loop"
    /\ steps < MaxSteps
    /\ \E d \in 0..1 :
         /\ now + d <= MaxElapsed
         /\ now' = now + d
         /\ pc' = IF TimedOut(now + d, timeout) THEN "after" ELSE "loop"
    /\ steps' = steps + 1
    /\ UNCHANGED <<cmpVars, fnVars, cfgVars, runVars, runner, word_idx, histVars>>

\* one iteration of the stream loop: iter.next() yields None, the loop breaks
StepEnd ==
    /\ pc = "loop"
    /\ \E d \in 0..1 :
         /\ now + d <= MaxElapsed
         /\ now' = now + d
    /\ pc' = "after"
    /\ UNCHANGED <<cmpVars, fnVars, cfgVars, runVars, runner, word_idx, steps, histVars>>

\* after the stream loop: NotFound for the remaining targets, and return
Finish ==
    /\ pc = "after"
    /\ benches' = [benches EXCEPT ![cur] =
                     PushAll(@, Range(runner.remaining_targets), BenchResult(OkNone, now))]
    /\ pc' = "idle"
    /\ outcome' = "ran"
    /\ word_pos' = word_pos + 1
    /\ UNCHANGED <<cmpVars, fnVars, cfgVars, phase, passes, start_words,
                   runner, word_idx, steps, now,
                   cur, scheduled, before, emitted, warmups, visited, searched,
                   precleared, found_in>>

\* the pass that is running has visited all its words
PassOver ==
    /\ pc = "idle"
    /\ word_pos = Len(start_words)

\* the locals and the record of the last visit are dropped between passes
DropVisit ==
    /\ runner' = NewRunner /\ word_idx' = 0 /\ steps' = 0 /\ now' = 0
    /\ cur' = "" /\ scheduled' = {} /\ before' = << >> /\ emitted' = << >>
    /\ outcome' = "none"
    /\ UNCHANGED pc

\* run_benches after the warm-up pass: clear_successes, then the first timed
\* pass begins (or the run ends when repeat = 0)
EndWarmup ==
    /\ phase = "warmup"
    /\ PassOver
    /\ benches' = clear_successes(benches)
    /\ precleared' = benches
    /\ DropVisit
    /\ IF MorePasses(0, repeat)
       THEN /\ phase' = "timed"
            /\ passes' = 1
            /\ start_words' \in Perms(DOMAIN benches)
            /\ word_pos' = 0
            /\ visited' = ZeroCount /\ searched' = ZeroCount
       ELSE /\ phase' = "done"
            /\ UNCHANGED <<passes, start_words, word_pos, visited, searched>>
    /\ UNCHANGED <<cmpVars, fnVars, cfgVars, warmups, found_in>>

\* faulty variant of NextPass: the Found outcomes are cleared after every pass
NextPassClearing ==
    /\ phase = "timed"
    /\ PassOver
    /\ DropVisit
    /\ benches' = clear_successes(benches)
    /\ IF MorePasses(passes, repeat)
       THEN /\ passes' = passes + 1
            /\ start_words' \in Perms(DOMAIN benches)
            /\ word_pos' = 0
            /\ visited' = ZeroCount /\ searched' = ZeroCount
            /\ UNCHANGED phase
       ELSE /\ phase' = "done"
            /\ UNCHANGED <<passes, start_words, word_pos, visited, searched>>
    /\ UNCHANGED <<cmpVars, fnVars, cfgVars, warmups, precleared, found_in>>

\* run_benches after a timed pass: the next one begins, or the run ends
NextPass ==
    /\ phase = "timed"
    /\ PassOver
    /\ DropVisit
    /\ IF MorePasses(passes, repeat)
       THEN /\ passes' = passes + 1
            /\ start_words' \in Perms(DOMAIN benches)
            /\ word_pos' = 0
            /\ visited' = ZeroCount /\ searched' = ZeroCount
            /\ UNCHANGED phase
       ELSE /\ phase' = "done"
            /\ UNCHANGED <<passes, start_words, word_pos, visited, searched>>
    /\ UNCHANGED <<cmpVars, fnVars, cfgVars, benches, warmups, precleared, found_in>>

Next ==
    \/ BeginRun
    \/ VisitSkip
    \/ VisitSearchErr
    \/ VisitSearchOk
    \/ StepWord
    \/ StepNoWord
    \/ StepEnd
    \/ Finish
    \/ EndWarmup
    \/ NextPass

Spec == Init /\ [][Next]_vars

SpecTwo == InitTwo /\ [][Next]_vars

\* run_benches is sequential code: whenever a step is possible one is taken
LiveTwo == SpecTwo /\ WF_vars(Next)

\* ------------------------------------------------------------------------
\* run_benches with a skip threshold above one
\* ------------------------------------------------------------------------

\* largest repeat_failed of these run configurations
MaxKeepRepeatFailed == 2

\* a Bencher with one start word and one target-group registered, and a run
\* configuration with positive repeat and repeat_failed
InitKeep ==
    /\ NoCmp
    /\ NoFn
    /\ repeat \in 1..MaxRepeat
    /\ repeat_failed \in 1..MaxKeepRepeatFailed
    /\ timeout \in 0..(MaxElapsed + 1)
    /\ benches = NewLedger([w \in {"x"} |-> {{"a"}}])
    /\ phase = "ready" /\ passes = 0 /\ start_words = << >> /\ word_pos = 0
    /\ pc = "idle" /\ runner = NewRunner /\ word_idx = 0 /\ steps = 0 /\ now = 0
    /\ cur = "" /\ scheduled = {} /\ before = << >> /\ emitted = << >>
    /\ outcome = "none" /\ warmups = 0
    /\ visited = ZeroCount /\ searched = ZeroCount
    /\ precleared = << >>
    /\ found_in = {}

SpecKeep == InitKeep /\ [][Next]_vars

\* ------------------------------------------------------------------------
\* clear_successes on a ledger that already holds results
\* ------------------------------------------------------------------------

\* longest history of a ledger that clear_successes is applied to
MaxHistory == 3

ClearInputs == {success(0, 0), BenchResult(OkNone, 0), BenchResult(Err(ErrMsgs[1]), 0)}

Histories(n) == UNION {[1..k -> ClearInputs] : k \in 0..n}

\* the benches that get registered: one start word with one target-group
OneGroup == [w \in {"x"} |-> {{"a"}}]

\* the end of the warm-up pass of a later run_benches call on a Bencher whose
\* one history h holds the results of earlier runs and, as its last entry, the
\* result of this warm-up visit; repeat_failed is large enough for the group
\* to have been scheduled
InitClear ==
    /\ NoCmp
    /\ NoFn
    /\ repeat \in 0..MaxRepeat
    /\ repeat_failed = MaxHistory
    /\ timeout = 1
    /\ \E h \in Histories(MaxHistory) \ {<< >>} :
         /\ benches = [w \in DOMAIN OneGroup |-> [g \in OneGroup[w] |-> h]]
         /\ before = [g \in OneGroup["x"] |-> SubSeq(h, 1, Len(h) - 1)]
         /\ emitted = IF is_found(h[Len(h)]) THEN << "a" >> ELSE << >>
         /\ runner = IF is_found(h[Len(h)])
                     THEN [remaining_targets |-> << >>, all_target_words |-> {"a"}]
                     ELSE IF IsNotFound(h[Len(h)])
                     THEN add_targets(NewRunner, {"a"})
                     ELSE NewRunner
         /\ outcome = IF IsErrored(h[Len(h)]) THEN "error" ELSE "ran"
         /\ found_in = IF is_found(h[Len(h)])
                       THEN {<< "x", {"a"}, "warmup" >>} ELSE {}
    /\ word_idx = Len(emitted) /\ steps = Len(emitted) /\ now = 0
    /\ phase = "warmup" /\ passes = 0
    /\ start_words = << "x" >>
    /\ word_pos = 1
    /\ pc = "idle"
    /\ cur = "x" /\ scheduled = OneGroup["x"]
    /\ warmups = 1
    /\ visited = [w \in DOMAIN OneGroup |-> 1]
    /\ searched = [w \in DOMAIN OneGroup |-> 1]
    /\ precleared = << >>

NextClear == EndWarmup

SpecClear == InitClear /\ [][NextClear]_vars

\* ------------------------------------------------------------------------
\* f64 and Duration
\* ------------------------------------------------------------------------

\* width of the significand of f64, scaled down: the integers up to
\* 2^MantissaBits convert to f64 without rounding
MantissaBits == 4

\* Duration::MAX in ticks, scaled down; like u64 seconds against f64, not
\* every Duration converts to f64 without rounding
DurationMax == 31

RECURSIVE Pow2(_)
Pow2(k) == IF k = 0 THEN 1 ELSE 2 * Pow2(k - 1)

\* the unit in the last place of the f64 nearest to x
RECURSIVE Ulp(_, _)
Ulp(x, unit) == IF x < Pow2(MantissaBits) * unit THEN unit ELSE Ulp(x, 2 * unit)

\* n / d rounded to the nearest integer, ties to even
RoundDiv(n, d) ==
    LET q == n \div d
        r == n % d
    IN  IF 2 * r > d \/ (2 * r = d /\ q % 2 = 1) THEN q + 1 ELSE q

\* the f64 nearest to the real number x (round to nearest, ties to even)
F64(x) == RoundDiv(x, Ulp(x, 1)) * Ulp(x, 1)

\* f64::INFINITY
Infinity == -1

\* f64::is_finite
is_finite(x) == x # Infinity

\* f64 addition and multiplication
FAdd(x, y) == IF x = Infinity \/ y = Infinity THEN Infinity ELSE F64(x + y)

FMul(x, y) == IF x = Infinity \/ y = Infinity THEN Infinity ELSE F64(x * y)

\* f64::partial_cmp (no NaN arises)
F64Cmp(x, y) ==
    IF x = y THEN "Equal"
    ELSE IF y = Infinity THEN "Less"
    ELSE IF x = Infinity THEN "Greater"
    ELSE NatCmp(x, y)

\* Duration::as_secs_f64
as_secs_f64(d) == F64(d)

\* ------------------------------------------------------------------------
\* BenchResultCompiler::score
\* ------------------------------------------------------------------------

\* largest rank of an outcome that is scored
MaxScoreRank == 18

\* largest denominator of a drop_fraction
MaxDen == 3

\* faulty variant of score: the rank does not count
scoreNoRank(self, r) ==
    IF is_found(r) THEN as_secs_f64(r.elapsed) ELSE Infinity

\* BenchResultCompiler::score
score(self, r) ==
    IF is_found(r)
    THEN FAdd(FMul(F64(r.found_index.idx), as_secs_f64(self.index_equivalent)),
              as_secs_f64(r.elapsed))
    ELSE Infinity

\* drop_fraction n/d as << n, d >>: the fractions BenchResultCompiler::new accepts
DropFractions ==
    {f \in (0..MaxDen) \X (1..MaxDen) : f[1] < f[2] /\ (f[1] = 0 => f[2] = 1)}

IndexEquivalents == {0, 1, 2, DurationMax}

\* BenchResultCompiler::new
Compilers ==
    {[index_equivalent |-> ie, drop_fraction |-> f] :
        ie \in IndexEquivalents, f \in DropFractions}

\* the outcomes score is applied to
ScoreInputs ==
    {success(i, e) : i \in 0..MaxScoreRank, e \in 0..MaxCmpElapsed}
    \cup {BenchResult(OkNone, e) : e \in 0..MaxCmpElapsed}
    \cup {BenchResult(Err(ErrMsgs[k]), e) : k \in 1..Len(ErrMsgs), e \in 0..MaxCmpElapsed}

InitScore ==
    /\ NoCmp
    /\ NoRun
    /\ compiler \in Compilers
    /\ result \in ScoreInputs
    /\ scored = FALSE /\ orig_score = 0 /\ new_score = 0
    /\ history = << >>
    /\ compiled = NotCompiled
    /\ NoOther

\* the outcome one rank further down
result_plus_one == success(result.found_index.idx + 1, result.elapsed)

\* compiler.score(&result) and, for a Found outcome, compiler.score(&result_plus_one)
Score ==
    /\ ~scored
    /\ scored' = TRUE
    /\ orig_score' = score(compiler, result)
    /\ new_score' = IF is_found(result) THEN score(compiler, result_plus_one)
                    ELSE new_score
    /\ UNCHANGED <<cmpVars, cfgVars, runVars, wordVars, histVars,
                   compiler, result, compileVars, judgeVars, regVars, dbVars, mainVars>>

NextScore == Score

SpecScore == InitScore /\ [][NextScore]_vars

\* ------------------------------------------------------------------------
\* BenchResultCompiler::compile
\* ------------------------------------------------------------------------

\* longest history drawn for compile, the histories of the tests apart
MaxCompile == 3

\* Option::Some
Some(x) == << x >>

\* faulty variant of PairCmp: only the scores are compared
PairCmpScoreOnly(x, y) == F64Cmp(x[1], y[1])

\* partial_cmp of the pairs (f64, BenchResult): lexicographic
PairCmp(x, y) ==
    LET first == F64Cmp(x[1], y[1])
    IN  IF first # "Equal" THEN first ELSE cmp(x[2], y[2])

\* x put into the sorted vector v behind every element that is not greater
InsertSorted(v, x) ==
    LET greater == {p \in 1..Len(v) : PairCmp(v[p], x) = "Greater"}
        pos == IF greater = {} THEN Len(v) + 1
               ELSE CHOOSE p \in greater : \A q \in greater : p <= q
    IN  SubSeq(v, 1, pos - 1) \o << x >> \o SubSeq(v, pos, Len(v))

\* results.sort_by(|x, y| x.partial_cmp(y).unwrap()): a stable sort
RECURSIVE sort_by(_)
sort_by(v) ==
    IF v = << >> THEN << >>
    ELSE InsertSorted(sort_by(SubSeq(v, 1, Len(v) - 1)), v[Len(v)])

\* the (score, result) pairs compile collects
Scored(self, rs) == [i \in 1..Len(rs) |-> << score(self, rs[i]), rs[i] >>]

IsErrPair(x) == IsErrored(x[2])

IsFinitePair(x) == is_finite(x[1])

\* faulty variant of ErrorSource: the errors are taken from the trimmed results
ErrorSourceTrimmed(sorted, trimmed) == trimmed

\* the results compile collects the error messages from
ErrorSource(sorted, trimmed) == sorted

\* the messages of the Errored results of v, in the order of v
Errors(v) ==
    LET errs == SelectSeq(v, IsErrPair)
    IN  [i \in 1..Len(errs) |-> errs[i][2].found_index.msg]

\* faulty variant of drop_num: the fraction is not halved
drop_num_whole(self, n) ==
    (self.drop_fraction[1] * n) \div self.drop_fraction[2]

\* (self.drop_fraction / 2.0 * results.len() as f64).floor() as usize
drop_num(self, n) ==
    (self.drop_fraction[1] * n) \div (2 * self.drop_fraction[2])

\* faulty variant of Trim: the slice is taken from the start
TrimFromStart(sorted, drop, keep) == SubSeq(sorted, 1, keep)

\* &results[drop_num..][..keep_num]
Trim(sorted, drop, keep) == SubSeq(sorted, drop + 1, drop + keep)

\* faulty variant of extend_range: a larger value does not move the end
extend_range_start_only(range, value) ==
    IF value < range[1] THEN << value, range[2] >> ELSE range

\* extend_range, a RangeInclusive as << start, end >>
extend_range(range, value) ==
    IF value < range[1] THEN << value, range[2] >>
    ELSE IF value > range[2] THEN << range[1], value >>
    ELSE range

\* iter.fold(first..=first, extend_range) from the k-th value
RECURSIVE FoldRange(_, _, _)
FoldRange(values, k, range) ==
    IF k > Len(values) THEN range
    ELSE FoldRange(values, k + 1, extend_range(range, values[k]))

\* get_range
get_range(values) ==
    IF values = << >> THEN None
    ELSE Some(FoldRange(values, 2, << values[1], values[1] >>))

\* faulty variant of Sum: the infinite scores are left out, as in the ranges
RECURSIVE SumFinite(_, _, _)
SumFinite(v, k, acc) ==
    IF k > Len(v) THEN acc
    ELSE SumFinite(v, k + 1, IF is_finite(v[k][1]) THEN FAdd(acc, v[k][1]) ELSE acc)

\* results.iter().map(|(s, _)| s).sum() from the k-th pair
RECURSIVE Sum(_, _, _)
Sum(v, k, acc) ==
    IF k > Len(v) THEN acc ELSE Sum(v, k + 1, FAdd(acc, v[k][1]))

\* the roundings of Duration::from_secs_f64 the standard library has had:
\* towards zero, and to nearest
Roundings == {"down", "nearest"}

\* total / keep_num as f64, converted by Duration::from_secs_f64 to ticks: at
\* 2^(MantissaBits-1) and above the quotient has no digit below one tick and is
\* rounded by the division, below that the conversion rounds it to a tick
MeanTicks(total, keep_num, rounding) ==
    IF total \div keep_num >= Pow2(MantissaBits - 1)
    THEN RoundDiv(total, keep_num * Ulp(total \div keep_num, 1))
         * Ulp(total \div keep_num, 1)
    ELSE IF rounding = "down" THEN total \div keep_num
    ELSE RoundDiv(total, keep_num)

\* a failed assert!, or the panic of Duration::from_secs_f64
Panicked ==
    [status |-> "panic", score |-> None, errors |-> << >>,
     found_index |-> None, elapsed |-> None,
     sorted |-> << >>, drop_num |-> 0, keep_num |-> 0, total |-> 0]

\* BenchResultCompiler::compile; the record holds the CompiledBenchResult
\* (score, errors, found_index, elapsed) and the locals sorted (results after
\* sort_by), drop_num, keep_num and total
compile(self, rs, rounding) ==
    IF rs = << >> THEN Panicked
    ELSE
    LET sorted == sort_by(Scored(self, rs))
        drop == drop_num(self, Len(sorted))
        keep == Len(sorted) - 2 * drop
        trimmed == Trim(sorted, drop, keep)
        finite == SelectSeq(trimmed, IsFinitePair)
        total == Sum(trimmed, 1, 0)
    IN  IF keep <= 0 THEN Panicked
        ELSE IF is_finite(total) /\ MeanTicks(total, keep, rounding) > DurationMax
        THEN Panicked
        ELSE [status |-> "ok",
              score |-> IF is_finite(total)
                        THEN Some(MeanTicks(total, keep, rounding)) ELSE None,
              errors |-> Errors(ErrorSource(sorted, trimmed)),
              found_index |-> get_range([i \in 1..Len(finite) |->
                                           finite[i][2].found_index.idx]),
              elapsed |-> get_range([i \in 1..Len(finite) |-> finite[i][2].elapsed]),
              sorted |-> sorted, drop_num |-> drop, keep_num |-> keep,
              total |-> total]

\* the outcomes the histories are drawn from
CompileInputs ==
    {success(0, 1), success(1, 0), success(1, 2), BenchResult(OkNone, 1),
     BenchResult(Err(ErrMsgs[1]), 0), BenchResult(Err(ErrMsgs[2]), 1)}

\* the histories of test_resultcompiler_drop_fraction_elapsed and
\* test_resultcompiler_drop_fraction_found_index
TestHistories ==
    {[i \in 1..5 |-> success(0, i)],
     [i \in 1..4 |-> success(0, 9 + i)],
     [i \in 1..3 |-> success(0, i - 1)],
     [i \in 1..5 |-> success(i, 0)],
     [i \in 1..3 |-> success(i - 1, 0)]}

InitCompile ==
    /\ NoCmp
    /\ NoRun
    /\ compiler \in Compilers
    /\ result = success(0, 0)
    /\ scored = FALSE /\ orig_score = 0 /\ new_score = 0
    /\ history \in UNION {[1..k -> CompileInputs] : k \in 0..MaxCompile}
                   \cup TestHistories
    /\ compiled = NotCompiled
    /\ NoOther

\* compiler.compile(history)
Compile ==
    /\ compiled.status = "none"
    /\ \E rounding \in Roundings : compiled' = compile(compiler, history, rounding)
    /\ UNCHANGED <<cmpVars, cfgVars, runVars, wordVars, histVars, scoreVars, history,
                   judgeVars, regVars, dbVars, mainVars>>

NextCompile == Compile

SpecCompile == InitCompile /\ [][NextCompile]_vars

\* ------------------------------------------------------------------------
\* CompiledBenchResult::is_better_than and difference
\* ------------------------------------------------------------------------

\* a CompiledBenchResult with the score s
CompiledWith(s) ==
    [score |-> s, errors |-> << >>, found_index |-> None, elapsed |-> None]

\* the values of Option<Duration>
Scores == {None} \cup {Some(d) : d \in 0..DurationMax}

\* an f64 with its sign: f64::NEG_INFINITY, a finite value, f64::INFINITY
NegInf == [kind |-> "neg_inf", val |-> 0]

PosInf == [kind |-> "pos_inf", val |-> 0]

Finite(x) == [kind |-> "finite", val |-> x]

\* f64 subtraction of two finite non-negative values
FSub(x, y) == IF x >= y THEN Finite(F64(x - y)) ELSE Finite(0 - F64(y - x))

\* d < 0.0
IsNegative(d) == d.kind = "neg_inf" \/ (d.kind = "finite" /\ d.val < 0)

\* CompiledBenchResult::is_better_than
is_better_than(self, other) ==
    IF self.score # None /\ other.score # None THEN self.score[1] < other.score[1]
    ELSE IF self.score # None THEN TRUE
    ELSE FALSE

\* CompiledBenchResult::difference
difference(self, other) ==
    IF self.score # None /\ other.score # None
    THEN FSub(as_secs_f64(self.score[1]), as_secs_f64(other.score[1]))
    ELSE IF self.score # None THEN NegInf
    ELSE IF other.score # None THEN PosInf
    ELSE Finite(0)

InitJudge ==
    /\ NoCmp
    /\ NoRun
    /\ compiler = [index_equivalent |-> 0, drop_fraction |-> << 0, 1 >>]
    /\ result = success(0, 0)
    /\ scored = FALSE /\ orig_score = 0 /\ new_score = 0
    /\ history = << >>
    /\ compiled = NotCompiled
    /\ contenders \in [1..3 -> {CompiledWith(s) : s \in Scores}]
    /\ verdict = NoVerdict
    /\ NoReg
    /\ NoDb
    /\ NoMain

\* a.is_better_than(&b) and a.difference(&b) for every two contenders a, b
Judge ==
    /\ ~verdict.done
    /\ verdict' =
         [done |-> TRUE,
          better |-> [i \in 1..3 |-> [j \in 1..3 |->
                        is_better_than(contenders[i], contenders[j])]],
          difference |-> [i \in 1..3 |-> [j \in 1..3 |->
                            difference(contenders[i], contenders[j])]]]
    /\ UNCHANGED <<cmpVars, cfgVars, runVars, wordVars, histVars, scoreVars,
                   compileVars, contenders, regVars, dbVars, mainVars>>

NextJudge == Judge

SpecJudge == InitJudge /\ [][NextJudge]_vars

\* ------------------------------------------------------------------------
\* Bencher::add_bench and load_benches
\* ------------------------------------------------------------------------

\* most calls made on one Bencher
MaxCalls == 3

\* longest history pushed onto a registered pair
MaxRegHistory == 1

\* a start word is a sequence of chars; e_acute and a_circ are precomposed
\* letters, acute and circ the combining marks of their decompositions
Marks == {"acute", "circ"}

\* canonical decomposition of one char
NfdChar(c) ==
    IF c = "e_acute" THEN << "e", "acute" >>
    ELSE IF c = "a_circ" THEN << "a", "circ" >>
    ELSE << c >>

\* accented.nfd() from the k-th char
RECURSIVE nfd(_, _)
nfd(accented, k) ==
    IF k > Len(accented) THEN << >>
    ELSE NfdChar(accented[k]) \o nfd(accented, k + 1)

is_combining_mark(c) == c \in Marks

NotCombiningMark(c) == ~is_combining_mark(c)

\* set_unaccented: the value left in unaccented
set_unaccented(accented) == SelectSeq(nfd(accented, 1), NotCombiningMark)

\* the start words registered
RegStartWords == {<< "e" >>, << "e_acute" >>, << "a_circ", "e" >>}

\* the target lists passed to add_bench: the words of one target-group
TargetLists == UNION {[1..k -> Words] : k \in 0..2}

\* BTreeSet::from_iter(targets)
TargetSet(targets) == {targets[i] : i \in 1..Len(targets)}

\* the BTreeMap of a start word, empty when the word has no entry
EntryOrDefault(bs, start_word) ==
    IF start_word \in DOMAIN bs THEN bs[start_word] ELSE << >>

\* faulty variant of add_bench: the entry is inserted afresh, an existing
\* history is lost
add_bench_insert(bs, start_word, targets) ==
    LET inner == EntryOrDefault(bs, start_word)
        group == TargetSet(targets)
        entry == [g \in DOMAIN inner \cup {group} |->
                     IF g = group THEN << >> ELSE inner[g]]
    IN  [w \in DOMAIN bs \cup {start_word} |->
            IF w = start_word THEN entry ELSE bs[w]]

\* Bencher::add_bench: entry(start_word).or_default().entry(set).or_default()
add_bench(bs, start_word, targets) ==
    LET inner == EntryOrDefault(bs, start_word)
        group == TargetSet(targets)
        entry == [g \in DOMAIN inner \cup {group} |->
                     IF g \in DOMAIN inner THEN inner[g] ELSE << >>]
    IN  [w \in DOMAIN bs \cup {start_word} |->
            IF w = start_word THEN entry ELSE bs[w]]

\* what benchfile::bench_line returns for a line: Ok(Some((start_words,
\* target_list))), Ok(None) for a blank or comment line, Err for the rest
BenchLine(sw, tl) == [kind |-> "bench", start_words |-> sw, target_list |-> tl]

BlankLine == [kind |-> "blank", start_words |-> << >>, target_list |-> << >>]

BadLine == [kind |-> "error", start_words |-> << >>, target_list |-> << >>]

\* faulty variant of AddTargets: the unaccented start word is not registered
RECURSIVE AddTargetsAccentedOnly(_, _, _, _, _)
AddTargetsAccentedOnly(bs, start_word, unaccented, target_list, k) ==
    IF k > Len(target_list) THEN bs
    ELSE AddTargetsAccentedOnly(add_bench(bs, start_word, target_list[k]),
                                start_word, unaccented, target_list, k + 1)

\* for targets in &target_list, from the k-th
RECURSIVE AddTargets(_, _, _, _, _)
AddTargets(bs, start_word, unaccented, target_list, k) ==
    IF k > Len(target_list) THEN bs
    ELSE LET one == add_bench(bs, start_word, target_list[k])
             two == IF unaccented # start_word
                    THEN add_bench(one, unaccented, target_list[k]) ELSE one
         IN  AddTargets(two, start_word, unaccented, target_list, k + 1)

\* for start_word in start_words, from the j-th
RECURSIVE AddStartWords(_, _, _, _)
AddStartWords(bs, start_words_, target_list, j) ==
    IF j > Len(start_words_) THEN bs
    ELSE AddStartWords(AddTargets(bs, start_words_[j],
                                  set_unaccented(start_words_[j]), target_list, 1),
                       start_words_, target_list, j + 1)

\* Bencher::load_benches from line line_no on: the ledger it leaves and what
\* it returns, Ok(()) or Err(ParseErr { line_no, .. })
RECURSIVE load_benches(_, _, _)
load_benches(bs, input, line_no) ==
    IF line_no > Len(input) THEN [benches |-> bs, ok |-> TRUE, line_no |-> 0]
    ELSE IF input[line_no].kind = "error"
    THEN [benches |-> bs, ok |-> FALSE, line_no |-> line_no]
    ELSE IF input[line_no].kind = "blank" THEN load_benches(bs, input, line_no + 1)
    ELSE load_benches(AddStartWords(bs, input[line_no].start_words,
                                    input[line_no].target_list, 1),
                      input, line_no + 1)

\* the lines of the bench files loaded
BenchLines ==
    {BenchLine(<< << "e_acute" >> >>, << << "a" >> >>),
     BenchLine(<< << "e" >>, << "e_acute" >> >>, << << "b", "a" >>, << "b" >> >>),
     BenchLine(<< << "a_circ", "e" >> >>, << << "a", "b" >> >>),
     BlankLine, BadLine}

BenchFiles == UNION {[1..k -> BenchLines] : k \in 1..2}

\* Bencher::new(), nothing called on it
InitReg ==
    /\ NoCmp
    /\ repeat = 0 /\ repeat_failed = 0 /\ timeout = 0
    /\ benches = << >>
    /\ phase = "ready" /\ passes = 0 /\ start_words = << >> /\ word_pos = 0
    /\ pc = "idle" /\ runner = NewRunner /\ word_idx = 0 /\ steps = 0 /\ now = 0
    /\ cur = "" /\ scheduled = {} /\ before = << >> /\ emitted = << >>
    /\ outcome = "none" /\ warmups = 0
    /\ visited = [w \in DOMAIN OneWord |-> 0]
    /\ searched = [w \in DOMAIN OneWord |-> 0]
    /\ precleared = << >>
    /\ found_in = {}
    /\ compiler = [index_equivalent |-> 0, drop_fraction |-> << 0, 1 >>]
    /\ result = success(0, 0)
    /\ scored = FALSE /\ orig_score = 0 /\ new_score = 0
    /\ history = << >>
    /\ compiled = NotCompiled
    /\ NoJudge
    /\ NoReg
    /\ NoDb
    /\ NoMain

RegFrame ==
    UNCHANGED <<cmpVars, cfgVars, phase, passes, start_words, word_pos, wordVars,
                histVars, scoreVars, compileVars, judgeVars, dbVars, mainVars>>

\* bencher.add_bench(start_word, targets)
AddBench ==
    /\ call.count < MaxCalls
    /\ \E sw \in RegStartWords, targets \in TargetLists :
         /\ benches' = add_bench(benches, sw, targets)
         /\ call' = [NoCall EXCEPT !.op = "add_bench", !.count = call.count + 1,
                                   !.start_word = sw, !.targets = targets]
    /\ prior' = benches
    /\ RegFrame

\* bencher.load_benches(input)
LoadBenches ==
    /\ call.count < MaxCalls
    /\ \E input \in BenchFiles :
         LET loaded == load_benches(benches, input, 1)
         IN  /\ benches' = loaded.benches
             /\ call' = [NoCall EXCEPT !.op = "load_benches",
                                       !.count = call.count + 1, !.input = input,
                                       !.ok = loaded.ok, !.line_no = loaded.line_no]
    /\ prior' = benches
    /\ RegFrame

\* an outcome pushed onto the history of a registered pair, as a run does and
\* as test_bencher_clear_successes does
PushResult ==
    /\ call.count < MaxCalls
    /\ \E w \in DOMAIN benches :
         \E g \in DOMAIN benches[w] :
           \E r \in {success(0, 0), BenchResult(OkNone, 1)} :
             /\ Len(benches[w][g]) < MaxRegHistory
             /\ benches' = [benches EXCEPT ![w][g] = Append(@, r)]
    /\ call' = [NoCall EXCEPT !.op = "push", !.count = call.count + 1]
    /\ prior' = benches
    /\ RegFrame

NextReg == AddBench \/ LoadBenches \/ PushResult

SpecReg == InitReg /\ [][NextReg]_vars

\* ------------------------------------------------------------------------
\* BenchDb: new_session_id, set_info, get_info, add_result, get_results
\* ------------------------------------------------------------------------

\* most calls of new_session_id, set_info and add_result on one BenchDb
MaxDbCalls == 4

\* latest wall-clock second
MaxClock == 1

InfoNames == {"k1", "k2"}

InfoValues == {"v1", "v2"}

BenchNames == {"b1", "b2"}

\* the outcomes stored: the elapsed time Pow2(MantissaBits) + 1 is not an f64,
\* DurationMax converts to an f64 above every Duration
DbOutcomes ==
    {success(1, 0), BenchResult(OkNone, Pow2(MantissaBits) + 1),
     BenchResult(Err(ErrMsgs[1]), 0), success(0, DurationMax)}

\* select 1 from bench_session_info where session_id = ? limit 1
InfoExists(d, session_id) ==
    \E i \in 1..Len(d.bench_session_info) :
        d.bench_session_info[i].session_id = session_id

\* while query.exists([session_id])? { session_id += 1; }
RECURSIVE FirstUnused(_, _)
FirstUnused(d, session_id) ==
    IF InfoExists(d, session_id) THEN FirstUnused(d, session_id + 1)
    ELSE session_id

\* BenchDb::new_session_id at the wall-clock second secs
new_session_id(d, secs) == FirstUnused(d, secs)

\* the rows of bench_session_info in conflict with (session_id, name) on the
\* primary key
Conflicting(d, session_id, name) ==
    {i \in 1..Len(d.bench_session_info) :
        /\ d.bench_session_info[i].session_id = session_id
        /\ d.bench_session_info[i].name = name}

\* faulty variant of set_info: a plain insert
set_info_insert(d, session_id, name, value) ==
    [d EXCEPT !.bench_session_info =
        Append(@, [session_id |-> session_id, name |-> name, value |-> value])]

\* BenchDb::set_info: insert .. on conflict do update set value = :value
set_info(d, session_id, name, value) ==
    IF Conflicting(d, session_id, name) = {}
    THEN [d EXCEPT !.bench_session_info =
            Append(@, [session_id |-> session_id, name |-> name, value |-> value])]
    ELSE [d EXCEPT !.bench_session_info =
            [i \in 1..Len(@) |->
                IF i \in Conflicting(d, session_id, name)
                THEN [@[i] EXCEPT !.value = value] ELSE @[i]]]

\* the number of rows the statement of set_info changes
SetInfoChanges(d, session_id, name) ==
    IF Conflicting(d, session_id, name) = {} THEN 1
    ELSE Cardinality(Conflicting(d, session_id, name))

\* map.insert(name, value) for the rows of the session from the k-th: a later
\* row replaces an earlier one of the same name
RECURSIVE InfoMap(_, _, _, _)
InfoMap(d, session_id, k, map) ==
    IF k > Len(d.bench_session_info) THEN map
    ELSE LET row == d.bench_session_info[k]
         IN  InfoMap(d, session_id, k + 1,
                     IF row.session_id = session_id
                     THEN [n \in DOMAIN map \cup {row.name} |->
                              IF n = row.name THEN row.value ELSE map[n]]
                     ELSE map)

\* BenchDb::get_info: the BTreeMap of the session's names and values
get_info(d, session_id) == InfoMap(d, session_id, 1, << >>)

\* the row add_result inserts into bench_run
RunRow(session_id, bench, r) ==
    [session_id |-> session_id, bench |-> bench,
     duration |-> as_secs_f64(r.elapsed),
     found_at |-> IF is_found(r) THEN Some(r.found_index.idx) ELSE None,
     err |-> IF IsErrored(r) THEN Some(r.found_index.msg) ELSE None]

\* BenchDb::add_result
add_result(d, session_id, bench, r) ==
    [d EXCEPT !.bench_run = Append(@, RunRow(session_id, bench, r))]

\* the BenchResult get_results builds from a row; Duration::from_secs_f64 of
\* the stored duration, which has no digit below one tick
FromRow(row) ==
    BenchResult(IF row.err # None THEN Err(row.err[1])
                ELSE IF row.found_at # None THEN OkSome(row.found_at[1])
                ELSE OkNone,
                row.duration)

\* select duration, found_at, err from bench_run where session_id = ? and bench = ?
Selected(d, session_id, bench) ==
    LET Match(row) == row.session_id = session_id /\ row.bench = bench
    IN  SelectSeq(d.bench_run, Match)

\* BenchDb::get_results: the Vec it returns, or the panic of
\* Duration::from_secs_f64 on a duration above Duration::MAX
get_results(d, session_id, bench) ==
    LET rows == Selected(d, session_id, bench)
    IN  IF \E i \in 1..Len(rows) : rows[i].duration > DurationMax
        THEN [status |-> "panic", results |-> << >>]
        ELSE [status |-> "ok", results |-> [i \in 1..Len(rows) |-> FromRow(rows[i])]]

\* BenchDb::new on an empty database
InitDb ==
    /\ NoCmp
    /\ NoRun
    /\ compiler = [index_equivalent |-> 0, drop_fraction |-> << 0, 1 >>]
    /\ result = success(0, 0)
    /\ scored = FALSE /\ orig_score = 0 /\ new_score = 0
    /\ history = << >>
    /\ compiled = NotCompiled
    /\ NoJudge
    /\ NoReg
    /\ NoDb
    /\ NoMain

DbFrame ==
    UNCHANGED <<cmpVars, cfgVars, runVars, wordVars, histVars, scoreVars,
                compileVars, judgeVars, regVars, mainVars>>

\* db.new_session_id(), SystemTime::now() being secs
NewSessionId ==
    /\ dbcall.count < MaxDbCalls
    /\ \E secs \in clock..MaxClock :
         /\ clock' = secs
         /\ minted' = minted \cup {new_session_id(db, secs)}
         /\ dbcall' = [NoDbCall EXCEPT !.op = "new_session_id",
                                       !.count = dbcall.count + 1,
                                       !.ret = new_session_id(db, secs)]
    /\ dbprior' = db
    /\ UNCHANGED <<db, appended>>
    /\ DbFrame

\* db.set_info(session_id, name, value)
SetInfo ==
    /\ dbcall.count < MaxDbCalls
    /\ \E session_id \in minted, name \in InfoNames, value \in InfoValues :
         /\ db' = set_info(db, session_id, name, value)
         /\ dbcall' = [NoDbCall EXCEPT !.op = "set_info", !.count = dbcall.count + 1,
                                       !.session_id = session_id, !.name = name,
                                       !.value = value,
                                       !.ret = SetInfoChanges(db, session_id, name)]
    /\ dbprior' = db
    /\ UNCHANGED <<clock, minted, appended>>
    /\ DbFrame

\* db.add_result(session_id, bench, outcome)
AddResult ==
    /\ dbcall.count < MaxDbCalls
    /\ \E session_id \in minted, bench \in BenchNames, r \in DbOutcomes :
         /\ db' = add_result(db, session_id, bench, r)
         /\ appended' = Append(appended, << session_id, bench, r >>)
         /\ dbcall' = [NoDbCall EXCEPT !.op = "add_result", !.count = dbcall.count + 1,
                                       !.session_id = session_id, !.bench = bench,
                                       !.outcome = r]
    /\ dbprior' = db
    /\ UNCHANGED <<clock, minted>>
    /\ DbFrame

NextDb == NewSessionId \/ SetInfo \/ AddResult

SpecDb == InitDb /\ [][NextDb]_vars

\* ------------------------------------------------------------------------
\* main: the bench harness, run by several processes on one database
\* ------------------------------------------------------------------------

\* most entries of the ledger that run_benches leaves to a harness
MaxLedger == 2

\* the names set_session_info stores, in call order: the first and the last
\* of its set_info calls
SessionInfo == << "machine", "bench_config" >>

\* the outcomes of the ledgers
MainOutcomes == {success(0, 0), BenchResult(OkNone, 1)}

\* what bencher.get_results() can return: (bench name, outcome) pairs
Ledgers == UNION {[1..k -> BenchNames \X MainOutcomes] : k \in 0..MaxLedger}

\* main has opened the database: BenchDb::new on an empty file
InitMain == InitDb

MainFrame ==
    UNCHANGED <<cmpVars, cfgVars, runVars, wordVars, histVars, scoreVars,
                compileVars, judgeVars, regVars, dbcall, dbprior>>

\* let session_id = db.new_session_id(), SystemTime::now() being secs
MainNewSession(h) ==
    /\ harness[h].pc = "start"
    /\ \E secs \in clock..MaxClock :
         /\ clock' = secs
         /\ minted' = minted \cup {new_session_id(db, secs)}
         /\ harness' = [harness EXCEPT ![h].pc = "info",
                                       ![h].session_id = new_session_id(db, secs)]
    /\ UNCHANGED <<db, appended>>
    /\ MainFrame

\* set_session_info: its next db.set_info(session_id, name, value)
MainSetInfo(h) ==
    /\ harness[h].pc = "info"
    /\ \E value \in InfoValues :
         db' = set_info(db, harness[h].session_id,
                        SessionInfo[harness[h].infos + 1], value)
    /\ harness' = [harness EXCEPT
                      ![h].infos = @ + 1,
                      ![h].pc = IF harness[h].infos + 1 = Len(SessionInfo)
                                THEN "run" ELSE "info"]
    /\ UNCHANGED <<clock, minted, appended>>
    /\ MainFrame

\* bencher.run_benches returns, and bencher.get_results() is taken
MainRunBenches(h) ==
    /\ harness[h].pc = "run"
    /\ \E rs \in Ledgers :
         harness' = [harness EXCEPT ![h].results = rs,
                                    ![h].pc = IF rs = << >> THEN "done" ELSE "write"]
    /\ UNCHANGED <<db, clock, minted, appended>>
    /\ MainFrame

\* one iteration of the loop over get_results(): db.add_result(session_id, ..)
MainAddResult(h) ==
    /\ harness[h].pc = "write"
    /\ LET e == harness[h].results[harness[h].written + 1]
       IN  /\ db' = add_result(db, harness[h].session_id, e[1], e[2])
           /\ appended' = Append(appended, << harness[h].session_id, e[1], e[2] >>)
    /\ harness' = [harness EXCEPT
                      ![h].written = @ + 1,
                      ![h].pc = IF harness[h].written + 1 = Len(harness[h].results)
                                THEN "done" ELSE "write"]
    /\ UNCHANGED <<clock, minted>>
    /\ MainFrame

NextMain ==
    \E h \in Harnesses :
        \/ MainNewSession(h)
        \/ MainSetInfo(h)
        \/ MainRunBenches(h)
        \/ MainAddResult(h)

SpecMain == InitMain /\ [][NextMain]_vars

\* ------------------------------------------------------------------------
\* Properties
\* ------------------------------------------------------------------------

\* 1 for Found, 2 for NotFound, 3 for Errored
Shape(r) == IF is_found(r) THEN 1 ELSE IF IsNotFound(r) THEN 2 ELSE 3

Compared == ordering # "unset"

\* C1: for two outcomes of different shapes the ordering puts Found below
\* NotFound and NotFound below Errored, whatever their elapsed times, ranks
\* or messages.
C1_FoundNotFoundErrored ==
    (Compared /\ Shape(lhs) # Shape(rhs)) =>
        ordering = (IF Shape(lhs) < Shape(rhs) THEN "Less" ELSE "Greater")

\* C2 as claimed: between two Errored outcomes elapsed time is compared first
\* and the message only breaks a tie in elapsed time.
C2_ElapsedThenMessage ==
    (Compared /\ IsErrored(lhs) /\ IsErrored(rhs)) =>
        ordering = (IF lhs.elapsed # rhs.elapsed
                    THEN NatCmp(lhs.elapsed, rhs.elapsed)
                    ELSE StrCmp(lhs.found_index.msg, rhs.found_index.msg))

\* C2 amended: between two Errored outcomes the message is compared first and
\* elapsed time only breaks a tie in message.
C2_MessageThenElapsed ==
    (Compared /\ IsErrored(lhs) /\ IsErrored(rhs)) =>
        ordering = (IF lhs.found_index.msg # rhs.found_index.msg
                    THEN StrCmp(lhs.found_index.msg, rhs.found_index.msg)
                    ELSE NatCmp(lhs.elapsed, rhs.elapsed))

C2_Witness ==
    /\ Compared /\ IsErrored(lhs) /\ IsErrored(rhs)
    /\ StrPos(lhs.found_index.msg) < StrPos(rhs.found_index.msg)
    /\ lhs.elapsed > rhs.elapsed

\* C3: between two Found outcomes the lower rank comes first and, at equal
\* rank, the lower elapsed time; between two NotFound outcomes the lower
\* elapsed time comes first.
C3_RankThenElapsed ==
    /\ (Compared /\ is_found(lhs) /\ is_found(rhs)) =>
          ordering = (IF lhs.found_index.idx # rhs.found_index.idx
                      THEN NatCmp(lhs.found_index.idx, rhs.found_index.idx)
                      ELSE NatCmp(lhs.elapsed, rhs.elapsed))
    /\ (Compared /\ IsNotFound(lhs) /\ IsNotFound(rhs)) =>
          ordering = NatCmp(lhs.elapsed, rhs.elapsed)

C3_Witness ==
    /\ Compared /\ is_found(lhs) /\ is_found(rhs)
    /\ lhs.found_index.idx = rhs.found_index.idx
    /\ lhs.elapsed < rhs.elapsed

\* a word of group g was emitted by the stream of the current visit
Emits(g) == \E i \in 1..Len(emitted) : emitted[i] \in g

\* zero-based position, among the emitted words, of the first word of g
FirstRank(g) ==
    (CHOOSE i \in 1..Len(emitted) :
        emitted[i] \in g /\ \A j \in 1..(i - 1) : emitted[j] \notin g) - 1

Last(h) == h[Len(h)]

\* the history of g holds one more entry than when the visit began
OneAppended(g) ==
    /\ Len(benches[cur][g]) = Len(before[g]) + 1
    /\ SubSeq(benches[cur][g], 1, Len(before[g])) = before[g]

\* C4: in a visit whose engine started, a scheduled group of which a word was
\* emitted has received Found(r, t), r the zero-based position of the first
\* emitted word of the group, counting only the steps that yield a word.
C4_FoundRank ==
    outcome \in {"running", "ran"} =>
        \A g \in scheduled : Emits(g) =>
            /\ OneAppended(g)
            /\ is_found(Last(benches[cur][g]))
            /\ Last(benches[cur][g]).found_index.idx = FirstRank(g)

C4_Witness ==
    /\ outcome = "ran"
    /\ steps > Len(emitted)
    /\ \E g \in scheduled : Emits(g) /\ FirstRank(g) = 1

\* C5: a visit whose engine started appends exactly one outcome to every
\* scheduled group, Found if a word of the group was emitted and otherwise
\* NotFound with the final elapsed time, and nothing to the other groups.
C5_OneOutcomePerScheduled ==
    outcome = "ran" =>
        \A g \in DOMAIN before :
            IF g \in scheduled
            THEN /\ OneAppended(g)
                 /\ IF Emits(g) THEN is_found(Last(benches[cur][g]))
                    ELSE Last(benches[cur][g]) = BenchResult(OkNone, now)
            ELSE benches[cur][g] = before[g]

C5_Witness ==
    /\ outcome = "ran"
    /\ now = 1
    /\ \E g \in scheduled : ~Emits(g)
    /\ DOMAIN before \ scheduled # {}

\* C6: when the engine fails to start, every group registered under the start
\* word, scheduled or not, gets one Errored outcome appended and no other.
C6_ErroredForAllRegistered ==
    outcome = "error" =>
        \A g \in DOMAIN before :
            /\ OneAppended(g)
            /\ IsErrored(Last(benches[cur][g]))

C6_Witness ==
    /\ outcome = "error"
    /\ scheduled # {}
    /\ DOMAIN before \ scheduled # {}

\* C7: in every pass a group is scheduled exactly when its history holds
\* fewer than repeat_failed outcomes or holds a Found outcome.
C7_SkipHeuristic ==
    outcome # "none" =>
        scheduled = {g \in DOMAIN before :
                        \/ Len(before[g]) < repeat_failed
                        \/ \E i \in 1..Len(before[g]) : is_found(before[g][i])}

C7_Witness ==
    /\ outcome # "none"
    /\ \E g \in scheduled : Len(before[g]) >= repeat_failed
    /\ DOMAIN before \ scheduled # {}

\* C8: one warm-up pass, then exactly `repeat` timed passes; every pass visits
\* every start word once, and the engine is called at most once per start
\* word and pass.
C8_PassesAndVisits ==
    /\ warmups <= 1
    /\ phase \in {"warmup", "timed", "done"} => warmups = 1
    /\ phase = "warmup" => passes = 0
    /\ phase = "timed" => passes \in 1..repeat
    /\ phase = "done" => passes = repeat
    /\ \A w \in DOMAIN benches : visited[w] <= 1 /\ searched[w] <= visited[w]
    /\ (phase \in {"warmup", "timed", "done"} /\ PassOver) =>
          \A w \in DOMAIN benches : visited[w] = 1

C8_Witness ==
    /\ phase = "done"
    /\ repeat = 2
    /\ \E w \in DOMAIN benches : searched[w] = 0
    /\ \E w \in DOMAIN benches : searched[w] = 1

\* C9 as claimed: in the warm-up pass of a run on an empty ledger every
\* registered group is scheduled, for every repeat_failed.
C9_WarmupSchedulesAll ==
    (phase = "warmup" /\ outcome # "none") => scheduled = DOMAIN before

\* C9 amended: in the warm-up pass of a run on an empty ledger every
\* registered group is scheduled, for every repeat_failed >= 1.
C9_WarmupSchedulesAllPositive ==
    (phase = "warmup" /\ outcome # "none" /\ repeat_failed >= 1) =>
        scheduled = DOMAIN before

C9_Witness ==
    /\ phase = "warmup" /\ outcome = "ran" /\ repeat_failed >= 1
    /\ cur = "x" /\ Cardinality(scheduled) = 2

IsFailure(r) == ~is_found(r)

\* C10: clear_successes after the warm-up pass removes every Found outcome
\* and keeps the NotFound and Errored outcomes in their order, so that no
\* Found outcome is in the ledger before the first timed pass.
C10_ClearSuccesses ==
    precleared # << >> =>
        \A w \in DOMAIN benches : \A g \in DOMAIN benches[w] :
            /\ benches[w][g] = SelectSeq(precleared[w][g], IsFailure)
            /\ \A i \in 1..Len(benches[w][g]) : ~is_found(benches[w][g][i])

C10_Witness ==
    /\ precleared # << >>
    /\ \E i, j, k \in 1..Len(precleared["x"][{"a"}]) :
         /\ i < j /\ j < k
         /\ IsNotFound(precleared["x"][{"a"}][i])
         /\ is_found(precleared["x"][{"a"}][j])
         /\ IsErrored(precleared["x"][{"a"}][k])
    /\ Len(benches["x"][{"a"}]) = 2

IsPrefix(h, k) == Len(h) <= Len(k) /\ SubSeq(k, 1, Len(h)) = h

\* C11: from the end of the warm-up cleanup until run_benches returns every
\* step leaves each history a prefix of what it becomes: the ledger grows
\* only by appending, no outcome of a timed pass is removed, changed or
\* reordered.
C11_AppendOnly ==
    [][(phase \in {"timed", "done"}) =>
          (\A w \in DOMAIN benches : \A g \in DOMAIN benches[w] :
              IsPrefix(benches[w][g], benches'[w][g]))]_vars

C11_Witness ==
    /\ phase = "done"
    /\ \E g \in DOMAIN benches["x"] :
         /\ Len(benches["x"][g]) = 2
         /\ is_found(benches["x"][g][1])
         /\ IsNotFound(benches["x"][g][2])

\* the visit in progress or just ended is one of start word w and it left
\* group g out
LeftOut(w, g) ==
    outcome # "none" /\ cur = w /\ g \in DOMAIN before /\ g \notin scheduled

\* the scheduling test of run_benches_for_word rejects group g of start word w
Rejected(w, g) == ~ShouldRun(benches[w][g], repeat_failed)

\* this step enters run_benches_for_word for start word w
VisitBegins(w) == visited'[w] = visited[w] + 1

\* C12: once a target-group is not scheduled in some pass of a run, it is not
\* scheduled in any later pass of that run: a visit leaves out exactly the
\* groups the scheduling test rejects, and a group it rejects once it rejects
\* after every later step of the run.
C12_SkippedStaysSkipped ==
    [][\A w \in DOMAIN benches : \A g \in DOMAIN benches[w] :
          /\ VisitBegins(w) => ((g \notin scheduled') <=> Rejected(w, g))
          /\ Rejected(w, g) => Rejected(w, g)']_vars

C12_Witness ==
    /\ phase = "timed" /\ passes = 2 /\ outcome = "skipped"
    /\ \E g \in DOMAIN before :
         /\ LeftOut("x", g)
         /\ Len(before[g]) = 2
         /\ IsErrored(before[g][2])

\* the last trial of group g of start word w is NotFound or Errored, and with
\* it the history of g holds repeat_failed entries or more
FailedTrial(w, g) ==
    /\ benches[w][g] # << >>
    /\ ~is_found(Last(benches[w][g]))
    /\ Len(benches[w][g]) >= repeat_failed

\* C13: a pair whose warm-up trial is NotFound or Errored and whose history
\* thereby reaches repeat_failed entries is not scheduled in any timed pass
\* of that run: the warm-up cleanup leaves it rejected by the scheduling
\* test, and no visit of a timed pass schedules a rejected group or makes
\* it acceptable again.
C13_WarmupFailureNeverRetried ==
    [][\A w \in DOMAIN benches : \A g \in DOMAIN benches[w] :
          /\ (phase = "warmup" /\ phase' # "warmup" /\ FailedTrial(w, g))
                => Rejected(w, g)'
          /\ (phase = "timed" /\ Rejected(w, g))
                => /\ Rejected(w, g)'
                   /\ VisitBegins(w) => g \notin scheduled']_vars

C13_Witness ==
    /\ phase = "timed" /\ passes = 1 /\ outcome = "ran"
    /\ \E g \in DOMAIN before :
         /\ LeftOut("x", g)
         /\ before[g] = << BenchResult(OkNone, 1) >>

\* C14: an engine start failure for one start word does not stop the run:
\* the visit returns to the pass loop, every pass still visits every start
\* word, all `repeat` timed passes are made, and run_benches returns.
C14_RunContinuesAfterError ==
    /\ [](outcome = "error" => (pc = "idle" /\ phase \in {"warmup", "timed"}))
    /\ []((phase \in {"warmup", "timed", "done"} /\ PassOver) =>
             \A w \in DOMAIN benches : visited[w] = 1)
    /\ [](phase = "done" => passes = repeat)
    /\ (outcome = "error") ~> (phase = "done")

C14_Witness ==
    /\ phase = "timed" /\ passes = 2
    /\ start_words = << "x", "y" >>
    /\ cur = "y" /\ outcome = "ran"
    /\ Len(benches["x"][{"a"}]) = 2
    /\ IsErrored(benches["x"][{"a"}][2])

\* x converts to f64 without rounding
Exact(x) == F64(x) = x

\* no step of the score of Found(i, e) is rounded
ExactScore(i, ie, e) ==
    Exact(i) /\ Exact(ie) /\ Exact(e) /\ Exact(i * ie) /\ Exact(i * ie + e)

Count(v, x) == Cardinality({i \in 1..Len(v) : v[i] = x})

SameElements(v, w) == \A x \in Range(v) \cup Range(w) : Count(v, x) = Count(w, x)

\* the inclusive range min..max of a set of numbers, absent for the empty set
RangeOf(S) ==
    IF S = {} THEN None
    ELSE Some(<< CHOOSE x \in S : \A y \in S : x <= y,
                 CHOOSE x \in S : \A y \in S : x >= y >>)

Returned == compiled.status = "ok"

\* the positions of the sorted history that trimming keeps
Kept == (compiled.drop_num + 1)..(compiled.drop_num + compiled.keep_num)

\* C15: the compiled error list holds the message of every Errored outcome of
\* the whole history, those that trimming removes included, and has as many
\* entries as the history has Errored outcomes.
C15_AllErrorsCollected ==
    Returned =>
        /\ \A k \in 1..Len(ErrMsgs) :
              Count(compiled.errors, ErrMsgs[k])
                = Cardinality({i \in 1..Len(history) :
                                  history[i].found_index = Err(ErrMsgs[k])})
        /\ Len(compiled.errors)
             = Cardinality({i \in 1..Len(history) : IsErrored(history[i])})

C15_Witness ==
    /\ Returned
    /\ compiled.drop_num = 1 /\ compiled.keep_num = 1
    /\ compiled.score # None
    /\ compiled.errors = << ErrMsgs[2] >>

\* C16: for a history of n >= 1 outcomes compile sorts it by score ascending,
\* discards drop = floor(drop_fraction / 2 * n) outcomes from each end and
\* takes the ranges (and the sum for the mean) over the keep = n - 2 * drop
\* outcomes in between, and keep > 0.
C16_TrimmedRanges ==
    (compiled.status # "none" /\ history # << >>) =>
        LET n == Len(history)
            drop == (compiler.drop_fraction[1] * n) \div (2 * compiler.drop_fraction[2])
            keep == n - 2 * drop
            kept == {i \in (drop + 1)..(drop + keep) : is_found(compiled.sorted[i][2])}
        IN  /\ keep > 0
            /\ Returned =>
                 /\ compiled.drop_num = drop /\ compiled.keep_num = keep
                 /\ SameElements(compiled.sorted, Scored(compiler, history))
                 /\ \A i \in 1..(n - 1) :
                       F64Cmp(compiled.sorted[i][1], compiled.sorted[i + 1][1]) # "Greater"
                 /\ compiled.found_index
                      = RangeOf({compiled.sorted[i][2].found_index.idx : i \in kept})
                 /\ compiled.elapsed
                      = RangeOf({compiled.sorted[i][2].elapsed : i \in kept})

C16_Witness ==
    /\ Returned
    /\ history = [i \in 1..5 |-> success(0, i)]
    /\ compiler.drop_fraction = << 1, 2 >> /\ compiler.index_equivalent = 0
    /\ compiled.elapsed = Some(<< 2, 4 >>)

\* C17: with drop_fraction = 0 the rank range and the elapsed range are the
\* minimum..maximum over all Found outcomes of the history, absent when there
\* is none, and the error list is empty when every outcome is Found.
C17_NoDropRanges ==
    (Returned /\ compiler.drop_fraction[1] = 0) =>
        LET found == {i \in 1..Len(history) : is_found(history[i])}
        IN  /\ compiled.found_index = RangeOf({history[i].found_index.idx : i \in found})
            /\ compiled.elapsed = RangeOf({history[i].elapsed : i \in found})
            /\ found = 1..Len(history) => compiled.errors = << >>

C17_Witness ==
    /\ Returned /\ compiler.drop_fraction[1] = 0
    /\ Len(history) = 3
    /\ is_found(history[1]) /\ IsNotFound(history[2]) /\ is_found(history[3])
    /\ compiled.found_index = Some(<< 0, 1 >>)
    /\ compiled.elapsed = Some(<< 1, 2 >>)

\* the sum of the scores of the outcomes that trimming keeps
RECURSIVE KeptSum(_)
KeptSum(I) ==
    IF I = {} THEN 0
    ELSE LET i == CHOOSE j \in I : TRUE
         IN  compiled.sorted[i][1] + KeptSum(I \ {i})

\* C19: the compiled score is present exactly when every outcome of the
\* trimmed set is Found, and it is then the sum of the trimmed scores divided
\* by keep, expressed as a Duration: the exact quotient when neither the sum
\* nor the quotient is rounded, and always within one unit in the last place.
C19_MeanOfTrimmed ==
    Returned =>
        /\ compiled.score # None <=> \A i \in Kept : is_found(compiled.sorted[i][2])
        /\ compiled.score # None =>
              /\ KeptSum(Kept) <= Pow2(MantissaBits) => compiled.total = KeptSum(Kept)
              /\ (KeptSum(Kept) <= Pow2(MantissaBits)
                    /\ KeptSum(Kept) % compiled.keep_num = 0)
                 => compiled.score = Some(KeptSum(Kept) \div compiled.keep_num)
              /\ compiled.score[1] * compiled.keep_num - compiled.total
                   < compiled.keep_num * Ulp(compiled.total \div compiled.keep_num, 1)
              /\ compiled.total - compiled.score[1] * compiled.keep_num
                   < compiled.keep_num * Ulp(compiled.total \div compiled.keep_num, 1)

C19_Witness ==
    /\ Returned
    /\ history = [i \in 1..5 |-> success(i, 0)]
    /\ compiler.index_equivalent = 2 /\ compiler.drop_fraction = << 1, 2 >>
    /\ compiled.keep_num = 3
    /\ compiled.score = Some(6)

\* C20: compile fails (a panic) exactly for the empty history and returns a
\* CompiledBenchResult for every non-empty history.
C20_FailsOnlyOnEmpty ==
    compiled.status # "none" =>
        (compiled.status = "panic" <=> history = << >>)

\* C21: is_better_than is a strict order on compiled results (irreflexive,
\* asymmetric, transitive), a present score beats an absent one and a lower
\* present score beats a higher one; a.is_better_than(b) holds exactly when
\* a.difference(b) < 0, and the difference is 0 when neither score is present
C21_BetterIffNegativeDifference ==
    verdict.done =>
        \A i, j \in 1..3 :
            LET a == contenders[i]
                b == contenders[j]
            IN  /\ ~verdict.better[i][i]
                /\ verdict.better[i][j] => ~verdict.better[j][i]
                /\ \A k \in 1..3 :
                       verdict.better[i][j] /\ verdict.better[j][k]
                           => verdict.better[i][k]
                /\ (a.score # None /\ b.score = None) => verdict.better[i][j]
                /\ (a.score # None /\ b.score # None /\ a.score[1] < b.score[1])
                       => verdict.better[i][j]
                /\ verdict.better[i][j] <=> IsNegative(verdict.difference[i][j])
                /\ (a.score = None /\ b.score = None)
                       => verdict.difference[i][j] = Finite(0)

\* the target-groups registered under start word w in the ledger bs
GroupsOf(bs, w) == DOMAIN EntryOrDefault(bs, w)

\* the last call was add_bench for a word set already registered under its
\* start word
Reregistered ==
    /\ call.op = "add_bench"
    /\ TargetSet(call.targets) \in GroupsOf(prior, call.start_word)

\* C22: add_bench is idempotent: registering a (start word, target-group)
\* whose word set is already registered under that start word, in any word
\* order, creates no second entry and leaves every recorded history unchanged
C22_AddBenchIdempotent == Reregistered => benches = prior

C22_Witness ==
    /\ Reregistered
    /\ call.targets = << "b", "a" >>
    /\ prior[call.start_word][{"a", "b"}] = << success(0, 0) >>
    /\ benches = prior

\* C23: after add_bench with an empty target list no target-group with an
\* empty word set is registered under the start word
C23_EmptyGroupRejected ==
    (call.op = "add_bench" /\ call.targets = << >>)
        => {} \notin GroupsOf(benches, call.start_word)

\* the lines of the last load_benches call that were processed: all of them
\* when it returned Ok, those before the malformed line otherwise
Processed ==
    IF call.ok THEN 1..Len(call.input) ELSE 1..(call.line_no - 1)

\* the start words the processed lines register: each start word and its
\* accent-stripped form
LoadedWords ==
    UNION {UNION {{call.input[n].start_words[j],
                   set_unaccented(call.input[n].start_words[j])} :
                     j \in 1..Len(call.input[n].start_words)} : n \in Processed}

\* the target-groups the processed lines give to the start word k
LoadedGroups(k) ==
    UNION {{TargetSet(call.input[n].target_list[t]) :
              t \in 1..Len(call.input[n].target_list)} :
           n \in {m \in Processed :
                    \E j \in 1..Len(call.input[m].start_words) :
                       k \in {call.input[m].start_words[j],
                              set_unaccented(call.input[m].start_words[j])}}}

\* C24: load_benches registers, for every start word of every definition line
\* it processes, the start word and its accent-stripped form, both with the
\* target-groups of the line (one entry when the two are equal); it registers
\* nothing else and keeps the histories there were
C24_LoadRegistersBothForms ==
    call.op = "load_benches" =>
        /\ DOMAIN benches = DOMAIN prior \cup LoadedWords
        /\ \A k \in DOMAIN benches :
              /\ DOMAIN benches[k] = GroupsOf(prior, k) \cup LoadedGroups(k)
              /\ \A g \in DOMAIN benches[k] :
                    benches[k][g] = IF g \in GroupsOf(prior, k) THEN prior[k][g]
                                    ELSE << >>

C24_Witness ==
    /\ call.op = "load_benches"
    /\ call.ok
    /\ call.input = << BenchLine(<< << "e" >>, << "e_acute" >> >>,
                                 << << "b", "a" >>, << "b" >> >>) >>
    /\ DOMAIN prior = {<< "e" >>}
    /\ \E g \in DOMAIN prior[<< "e" >>] : prior[<< "e" >>][g] # << >>
    /\ DOMAIN benches = {<< "e" >>, << "e_acute" >>}
    /\ DOMAIN benches[<< "e_acute" >>] = {{"a", "b"}, {"b"}}

\* the rows of bench_run under the session
RunRows(d, session_id) ==
    {i \in 1..Len(d.bench_run) : d.bench_run[i].session_id = session_id}

\* C25: new_session_id returns an identifier that is unused in the store: no
\* metadata row and no trial row exists under it at the time of the call
C25_SessionIdUnused ==
    dbcall.op = "new_session_id" =>
        /\ ~InfoExists(db, dbcall.ret)
        /\ RunRows(db, dbcall.ret) = {}

\* C26: after set_info(s, k, v), get_info(s) maps k to v whatever was stored
\* before, there is exactly one row per (session, key), and the other keys of
\* s and all keys of the other sessions are as they were
C26_SetInfoOverwrites ==
    dbcall.op = "set_info" =>
        LET s == dbcall.session_id
            now_s == get_info(db, s)
            was_s == get_info(dbprior, s)
        IN  /\ dbcall.name \in DOMAIN now_s
            /\ now_s[dbcall.name] = dbcall.value
            /\ \A t \in minted, n \in InfoNames :
                  Cardinality(Conflicting(db, t, n)) <= 1
            /\ Cardinality(Conflicting(db, s, dbcall.name)) = 1
            /\ DOMAIN now_s = DOMAIN was_s \cup {dbcall.name}
            /\ \A n \in DOMAIN was_s \ {dbcall.name} : now_s[n] = was_s[n]
            /\ \A t \in minted \ {s} : get_info(db, t) = get_info(dbprior, t)
            /\ db.bench_run = dbprior.bench_run

C26_Witness ==
    /\ dbcall.op = "set_info"
    /\ dbcall.name = "k1"
    /\ dbcall.value = "v2"
    /\ get_info(dbprior, dbcall.session_id) = [n \in {"k1", "k2"} |-> "v1"]
    /\ get_info(db, dbcall.session_id) =
          [n \in {"k1", "k2"} |-> IF n = "k1" THEN "v2" ELSE "v1"]

\* the outcomes appended under the session and the bench name, in call order
AppendedTo(session_id, bench) ==
    LET Match(a) == a[1] = session_id /\ a[2] = bench
        mine == SelectSeq(appended, Match)
    IN  [i \in 1..Len(mine) |-> mine[i][3]]

\* the shapes of the outcomes of v: Found with its rank, NotFound, Errored
\* with its message
Shapes(v) == [i \in 1..Len(v) |-> v[i].found_index]

\* C27: for every session and bench name get_results returns the outcomes
\* appended with add_result under that session and that bench name, as a
\* multiset and each with its shape preserved, whatever the order in which
\* the rows were interleaved
C27_ResultsAsAppended ==
    \A s \in minted, b \in BenchNames :
        /\ get_results(db, s, b).status = "ok"
        /\ SameElements(Shapes(get_results(db, s, b).results),
                        Shapes(AppendedTo(s, b)))

\* the step is a stream step that yields a word
WordStep == Len(emitted') = Len(emitted) + 1

\* the unresolved target-groups of the invocation under way
Unresolved == Range(runner.remaining_targets)

\* C28: an emitted word closes, on that same step, every unresolved
\* target-group it belongs to, each with the same rank and elapsed time, and
\* leaves unresolved exactly the groups that do not contain it; a word of no
\* unresolved group closes nothing
C28_WordClosesAllItsGroups ==
    [][WordStep =>
        LET word == emitted'[Len(emitted')]
            closed == {g \in Unresolved : word \in g}
        IN  /\ Unresolved' = Unresolved \ closed
            /\ Len(runner'.remaining_targets) = Cardinality(Unresolved')
            /\ \A g \in DOMAIN benches[cur] :
                  benches'[cur][g] =
                      IF g \in closed
                      THEN Append(benches[cur][g], success(word_idx, now'))
                      ELSE benches[cur][g]]_vars

C28_Witness ==
    /\ pc = "after"
    /\ emitted = << "a" >>
    /\ scheduled = {{"a"}, {"a", "b"}}
    /\ Unresolved = {}
    /\ \A g \in scheduled : benches[cur][g] = Append(before[g], success(0, now))

\* C29: within one invocation a stream step is requested only while a group
\* is unresolved and the last timeout check found elapsed < timeout, and none
\* is requested after the stream has reported exhaustion or the loop was left
C29_NoStepAfterStop ==
    [][/\ (steps' = steps + 1 \/ (pc = "loop" /\ pc' = "after"))
          => /\ pc = "loop"
             /\ Unresolved # {}
             /\ (steps > 0 => now < timeout)
       /\ pc = "after" => (pc' = "idle" /\ steps' = steps /\ emitted' = emitted)
       /\ (pc = "loop" /\ pc' = "loop") => (Unresolved' # {} /\ now' < timeout)]_vars

C29_Witness ==
    /\ pc = "after"
    /\ steps = 1
    /\ emitted = << "b" >>
    /\ Unresolved = {{"a"}}
    /\ now = timeout
    /\ now > 0

\* no target-group of start word w passes the skip heuristic
NoneScheduled(w) == \A g \in DOMAIN benches[w] : Rejected(w, g)

\* C30: when the skip heuristic schedules none of a start word's
\* target-groups in a pass, the engine is not called for that start word in
\* that visit, no stream step is taken and the ledger is left unchanged
C30_SkippedWordUntouched ==
    [][\A w \in DOMAIN benches :
          (VisitBegins(w) /\ NoneScheduled(w))
              => /\ searched'[w] = searched[w]
                 /\ benches' = benches
                 /\ pc' = "idle"
                 /\ outcome' = "skipped"
                 /\ word_pos' = word_pos + 1]_vars

C30_Witness ==
    /\ phase = "timed"
    /\ outcome = "skipped"
    /\ searched[cur] = 0
    /\ visited[cur] = 1
    /\ benches[cur] = before
    /\ \A g \in DOMAIN before : Len(before[g]) = 1 /\ IsNotFound(before[g][1])

\* the step enters the stream loop of an invocation whose engine started
LoopEntered == outcome # "running" /\ outcome' = "running"

\* C31: the timeout is tested only after a stream step: an invocation with a
\* scheduled group whose engine started enters the loop whatever the timeout,
\* nothing but a stream step leads out of the loop, a word matched on the step
\* that reaches the timeout is recorded as Found, and every step but the
\* first starts before the timeout
C31_TimeoutAfterStep ==
    [][/\ LoopEntered => (pc' = "loop" /\ steps' = 0 /\ Unresolved' # {})
       /\ (pc = "loop" /\ pc' # "loop")
             => \/ steps' = steps + 1
                \/ (steps' = steps /\ benches' = benches /\ emitted' = emitted)
       /\ (WordStep /\ now' >= timeout)
             => \A g \in Unresolved :
                   emitted'[Len(emitted')] \in g
                      => benches'[cur][g] =
                            Append(benches[cur][g], success(word_idx, now'))
       /\ (steps' = steps + 1 /\ steps > 0) => now < timeout]_vars

C31_Witness ==
    /\ timeout = 0
    /\ pc = "after"
    /\ steps = 1
    /\ emitted = << "a" >>
    /\ now >= timeout
    /\ \E g \in scheduled : benches[cur][g] = Append(before[g], success(0, now))

\* the current run has pushed a Found outcome for group g of start word w in
\* a pass of one of the phases phs
Produced(w, g, phs) == \E ph \in phs : << w, g, ph >> \in found_in

\* C32 as claimed: a group that produced a Found outcome in an earlier pass
\* of the run, the warm-up pass included, is scheduled in every later visit
\* of its start word
C32_FoundKeepsScheduled ==
    [][\A w \in DOMAIN benches : \A g \in DOMAIN benches[w] :
          (VisitBegins(w) /\ Produced(w, g, {"warmup", "timed"}))
              => g \in scheduled']_vars

\* C32 amended: a group that produced a Found outcome in an earlier timed
\* pass of the run is scheduled in every later visit of its start word,
\* however many NotFound or Errored outcomes its history holds
C32_TimedFoundKeepsScheduled ==
    [][\A w \in DOMAIN benches : \A g \in DOMAIN benches[w] :
          (VisitBegins(w) /\ Produced(w, g, {"timed"}))
              => g \in scheduled']_vars

C32_Witness ==
    /\ phase = "timed" /\ passes = 2
    /\ outcome # "none"
    /\ repeat_failed = 2
    /\ \E g \in scheduled :
         /\ Produced(cur, g, {"timed"})
         /\ Len(before[g]) >= repeat_failed
         /\ ~is_found(before[g][1])

\* the outcomes the history of group g of start word w held before the
\* warm-up pass: all but the warm-up outcome of what the cleanup was applied to
Earlier(w, g) == SubSeq(precleared[w][g], 1, Len(precleared[w][g]) - 1)

\* C33: when run_benches returns, every outcome the ledger held before the
\* call is still in the ledger: the cleanup after the warm-up pass removes
\* only Found outcomes of that warm-up pass
C33_EarlierOutcomesKept ==
    (phase = "done" /\ precleared # << >>) =>
        \A w \in DOMAIN benches : \A g \in DOMAIN benches[w] :
            \A i \in 1..Len(Earlier(w, g)) :
                Count(benches[w][g], Earlier(w, g)[i])
                    >= Count(Earlier(w, g), Earlier(w, g)[i])

\* the harness run h has obtained its session id
HasSession(h) == harness[h].pc # "start"

\* C34: two harness runs on one database hold distinct session ids, whatever
\* the interleaving of their calls and the seconds at which they start
C34_DistinctSessionIds ==
    \A h1, h2 \in Harnesses :
        (h1 # h2 /\ HasSession(h1) /\ HasSession(h2))
            => harness[h1].session_id # harness[h2].session_id

\* BenchResultCompiler::new(one tick, 0.0)
PlainCompiler == [index_equivalent |-> 1, drop_fraction |-> << 0, 1 >>]

\* C35: after run_benches on an empty ledger with repeat >= 1 and
\* repeat_failed >= 1 every registered pair has a non-empty history, and
\* compile accepts it
C35_NoEmptyHistory ==
    (phase = "done" /\ repeat >= 1 /\ repeat_failed >= 1) =>
        \A w \in DOMAIN benches : \A g \in DOMAIN benches[w] :
            /\ benches[w][g] # << >>
            /\ \A rounding \in Roundings :
                  compile(PlainCompiler, benches[w][g], rounding).status = "ok"

C35_Witness ==
    /\ phase = "done" /\ repeat = 1 /\ repeat_failed = 1
    /\ \E g \in DOMAIN benches["x"] :
         /\ Produced("x", g, {"warmup"})
         /\ Len(benches["x"][g]) = 1
         /\ IsNotFound(benches["x"][g][1])

\* the metadata of the session of harness run h is in the store
InfoWritten(h) ==
    \A k \in 1..Len(SessionInfo) :
        SessionInfo[k] \in DOMAIN get_info(db, harness[h].session_id)

\* C36: the metadata of a session is in the store before the first pass; while
\* the passes of a harness run are under way the store holds no trial row of
\* its session, and once the run has written its results the store holds
\* exactly one row per ledger entry
C36_MetadataThenRows ==
    \A h \in Harnesses :
        /\ harness[h].pc \in {"run", "write", "done"} => InfoWritten(h)
        /\ harness[h].pc = "run" => RunRows(db, harness[h].session_id) = {}
        /\ harness[h].pc = "done" =>
              Cardinality(RunRows(db, harness[h].session_id)) = Len(harness[h].results)

\* the step belongs to an invocation of run_benches_for_word: it enters one,
\* or one is under way
InvocationStep == pc # "idle" \/ \E w \in DOMAIN benches : VisitBegins(w)

\* the target-groups of start word w that the scheduling test accepts
Accepted(w) == {g \in DOMAIN benches[w] : ~Rejected(w, g)}

\* C37: a step of the invocation for a start word leaves the histories of
\* every other start word unchanged, and with them the target-groups of the
\* other start words that the scheduling test accepts
C37_OtherWordsUntouched ==
    [][InvocationStep =>
          \A v \in DOMAIN benches :
              v # cur' => (benches'[v] = benches[v] /\ Accepted(v)' = Accepted(v))]_vars

C37_Witness ==
    /\ phase = "timed"
    /\ start_words = << "y", "x" >>
    /\ cur = "x" /\ outcome = "ran"
    /\ visited["y"] = 1
    /\ benches["x"] # before
    /\ \E g \in DOMAIN benches["y"] : Len(benches["y"][g]) = 2

\* the orders the outcomes of history h can be handed over in
Reorderings(h) == {[i \in 1..Len(h) |-> h[p[i]]] : p \in Perms(1..Len(h))}

\* what compile returns: whether it returned, and the CompiledBenchResult
Outcome(c) == << c.status, c.score, c.errors, c.found_index, c.elapsed >>

\* C38: compile returns the same CompiledBenchResult (score, error list, rank
\* range, elapsed range) for every order of the outcomes of a non-empty
\* history
C38_OrderIndependent ==
    [][(compiled' # compiled /\ history # << >>) =>
          /\ \E rounding \in Roundings :
                compiled' = compile(compiler, history, rounding)
          /\ \A rounding \in Roundings :
                LET returned == Outcome(compile(compiler, history, rounding))
                IN  \A h \in Reorderings(history) :
                       Outcome(compile(compiler, h, rounding)) = returned]_vars

C38_Witness ==
    /\ compiled.status = "ok"
    /\ Len(history) = 3
    /\ history[1] = BenchResult(Err(ErrMsgs[2]), 1)
    /\ history[2] = BenchResult(OkNone, 1)
    /\ history[3] = BenchResult(Err(ErrMsgs[1]), 0)
    /\ compiled.errors = << ErrMsgs[1], ErrMsgs[2] >>

\* the number of NotFound and Errored outcomes of the history compiled
Failures == Len(SelectSeq(history, IsFailure))

\* floor(drop_fraction / 2 * n) for the history compiled
DropOf == (compiler.drop_fraction[1] * Len(history)) \div (2 * compiler.drop_fraction[2])

\* C39: the compiled score is present exactly when the history holds at most
\* floor(drop_fraction / 2 * n) NotFound and Errored outcomes, and whenever it
\* is present so are the rank range and the elapsed range
C39_ScoreIffFewFailures ==
    Returned =>
        /\ compiled.score # None <=> Failures <= DropOf
        /\ compiled.score # None =>
              (compiled.found_index # None /\ compiled.elapsed # None)

C39_Witness ==
    /\ Returned
    /\ DropOf = 1
    /\ Failures = 1
    /\ compiled.score # None
    /\ compiled.found_index # None
    /\ compiled.elapsed # None

====
